---------------------------- MODULE Spec2Model ----------------------------
(***************************************************************************)
(* OpenTracker: the daily scheduler loop (src/src/scheduler/mod.rs), the   *)
(* delay computation it rests on, and the daily pipeline                   *)
(* (src/src/main.rs run_daily_pipeline) with the visit store               *)
(* (src/src/db/mod.rs) and the report builder (src/src/analyzer); the      *)
(* history extractor one file-system operation at a time                   *)
(* (src/src/collector/chrome.rs), the select! of run_service               *)
(* (src/src/main.rs) and the pure functions of the categorizer and the     *)
(* analyzer.  The functions that are called once with their arguments      *)
(* (enrich_chrome_visits, sync_chrome_visits_for_date,                     *)
(* parse_daily_cron_time, cron_from_report_time) are explored one call at  *)
(* a time over bounded sets of arguments.                                  *)
(*                                                                         *)
(* Strings the program parses or formats are sequences of one-character    *)
(* strings, so that parsing and formatting are computed, not assumed.      *)
(* Time is counted in whole seconds since local midnight of day 0.  The    *)
(* scheduler is explored over a civil day of DayLen seconds (see the       *)
(* bounds below); the delay function itself takes the length of the day    *)
(* as an argument and is also checked for the real day of 86400 seconds.   *)
(***************************************************************************)
EXTENDS Integers, Sequences, FiniteSets, TLC

(***************************************************************************)
(* Program constants                                                       *)
(***************************************************************************)
\* scheduler/mod.rs:10  const RESCHEDULE_POLL_SECONDS: u64 = 30
RESCHEDULE_POLL_SECONDS == 30
\* scheduler/mod.rs:63  sleep(Duration::from_secs(1)) after every task
SETTLE_SECONDS == 1
\* chrono's civil day, used for the delay function's worked examples
REAL_DAY_SECONDS == 86400
\* NaiveTime::from_hms_opt(hour, minute, 0) accepts hour < 24, minute < 60
HOURS_PER_DAY == 24
MINUTES_PER_HOUR == 60
SECONDS_PER_MINUTE == 60

(***************************************************************************)
(* Bounds of the exploration                                               *)
(***************************************************************************)
\* length of the civil day the scheduler is explored over, in seconds
DayLen == 155
\* the scheduler is explored until the clock reaches MaxDays * DayLen
MaxDays == 2
\* a sleep returns at its deadline or up to MaxJitter seconds after it
MaxJitter == 1
\* the task invoked by the scheduler runs 0..MaxTaskSeconds seconds
MaxTaskSeconds == 1
\* the schedule source is edited at most MaxEdits times
MaxEdits == 1
\* parsed numbers are counted up to ParseSaturation and held there: every
\* number the program compares a parsed field with is far below it
ParseSaturation == 100000

\* invocations of the pipeline in one behaviour
MaxRuns == 2

(***************************************************************************)
(* Strings                                                                 *)
(***************************************************************************)
DigitChars == <<"0", "1", "2", "3", "4", "5", "6", "7", "8", "9">>

IsDigit(c) == \E i \in 1..10 : DigitChars[i] = c

DigitValue(c) == (CHOOSE i \in 1..10 : DigitChars[i] = c) - 1

IsWhitespace(c) == c \in {" ", "\t", "\n"}

\* format!("{}", n) for an unsigned number: decimal, no leading zeros
RECURSIVE Decimal(_)
Decimal(n) ==
    IF n < 10 THEN <<DigitChars[n + 1]>>
    ELSE Decimal(n \div 10) \o <<DigitChars[(n % 10) + 1]>>

\* the value of a run of decimal digits, -1 when a character is no digit
RECURSIVE DigitsValue(_, _)
DigitsValue(s, acc) ==
    IF s = <<>> THEN acc
    ELSE IF ~IsDigit(Head(s)) THEN -1
    ELSE LET v == acc * 10 + DigitValue(Head(s))
         IN  DigitsValue(Tail(s), IF v > ParseSaturation THEN ParseSaturation ELSE v)

\* str::parse::<u32>(): an optional '+', then at least one digit; -1 stands
\* for Err.  A number too large for u32 is an Err in the program and
\* ParseSaturation here: both are rejected by every caller.
ParseU32(s) ==
    LET body == IF s # <<>> /\ Head(s) = "+" THEN Tail(s) ELSE s
        v    == DigitsValue(body, 0)
    IN  IF body = <<>> \/ v < 0 THEN -1 ELSE v

\* str::split_whitespace(): the maximal runs of non-whitespace characters
RECURSIVE SplitInto(_, _, _)
SplitInto(s, cur, acc) ==
    IF s = <<>> THEN (IF cur = <<>> THEN acc ELSE Append(acc, cur))
    ELSE IF IsWhitespace(Head(s))
         THEN SplitInto(Tail(s), <<>>, IF cur = <<>> THEN acc ELSE Append(acc, cur))
         ELSE SplitInto(Tail(s), Append(cur, Head(s)), acc)

split_whitespace(s) == SplitInto(s, <<>>, <<>>)

Ok(value) == [ok |-> TRUE, value |-> value]

(***************************************************************************)
(* scheduler/mod.rs: cron expressions and the delay to the next run        *)
(***************************************************************************)
\* the hour written before the minute
FormatCronHourFirst(minute, hour) ==
    Decimal(hour) \o <<" ">> \o Decimal(minute) \o <<" ", "*", " ", "*", " ", "*">>

\* the format! of cron_from_report_time: "{minute} {hour} * * *"
FormatCron(minute, hour) ==
    Decimal(minute) \o <<" ">> \o Decimal(hour) \o <<" ", "*", " ", "*", " ", "*">>

TimeErr == [ok |-> FALSE, hour |-> 0, minute |-> 0]

\* a parser that reads the first two of five fields and ignores the rest
ParseDailyCronTimeAnyRest(cron_expr) ==
    LET fields == split_whitespace(cron_expr)
    IN  IF Len(fields) # 5 THEN TimeErr
        ELSE LET minute == ParseU32(fields[1])
                 hour   == ParseU32(fields[2])
             IN  IF minute < 0 \/ hour < 0 THEN TimeErr
                 ELSE IF hour < HOURS_PER_DAY /\ minute < MINUTES_PER_HOUR
                      THEN [ok |-> TRUE, hour |-> hour, minute |-> minute]
                      ELSE TimeErr

\* parse_daily_cron_time: Ok(NaiveTime hour:minute:00) or Err
parse_daily_cron_time(cron_expr) ==
    LET fields == split_whitespace(cron_expr)
    IN  IF Len(fields) # 5 THEN TimeErr
        ELSE IF fields[3] # <<"*">> \/ fields[4] # <<"*">> \/ fields[5] # <<"*">>
             THEN TimeErr
        ELSE LET minute == ParseU32(fields[1])
                 hour   == ParseU32(fields[2])
             IN  IF minute < 0 THEN TimeErr
                 ELSE IF hour < 0 THEN TimeErr
                 ELSE IF hour < HOURS_PER_DAY /\ minute < MINUTES_PER_HOUR
                      THEN [ok |-> TRUE, hour |-> hour, minute |-> minute]
                      ELSE TimeErr

\* seconds since midnight of a NaiveTime hour:minute:00
SecondsOfDay(t) == (t.hour * MINUTES_PER_HOUR + t.minute) * SECONDS_PER_MINUTE

\* Local::now().date_naive(), days being `day` seconds long
DateOf(day, now) == now \div day

TimeOfDay(day, now) == now % day

\* the outcomes of Local.from_local_datetime: one instant, or none / two of
\* them at a clock transition
LocalResults == {"Single", "None", "Ambiguous"}

DelayErr == [ok |-> FALSE, secs |-> 0]

\* a comparison that also takes a candidate equal to now
CandidateIsAheadOrNow(candidate_today, now) == candidate_today >= now

\* the comparison of line 83: today's candidate is used only when it is
\* strictly later than now
CandidateIsAhead(candidate_today, now) == candidate_today > now

\* seconds_until_next_run: `today_local` and `tomorrow_local` are what
\* from_local_datetime answers for the target time on the two dates
seconds_until_next_run(day, now, cron_expr, today_local, tomorrow_local) ==
    LET target_time == parse_daily_cron_time(cron_expr)
        today       == DateOf(day, now)
        tomorrow_at == (today + 1) * day + SecondsOfDay(target_time)
        today_at    == today * day + SecondsOfDay(target_time)
    IN  IF ~target_time.ok THEN DelayErr
        ELSE IF today_local # "Single" /\ tomorrow_local # "Single" THEN DelayErr
        ELSE LET candidate_today ==
                     IF today_local = "Single" THEN today_at ELSE tomorrow_at
             IN  IF CandidateIsAhead(candidate_today, now)
                 THEN [ok |-> TRUE, secs |-> candidate_today - now]
                 ELSE IF tomorrow_local # "Single" THEN DelayErr
                 ELSE IF tomorrow_at - now < 0 THEN DelayErr
                 ELSE [ok |-> TRUE, secs |-> tomorrow_at - now]

(***************************************************************************)
(* Strings: comparison, case, trimming, searching                          *)
(***************************************************************************)
UpperLetters ==
    <<"A", "B", "C", "D", "E", "F", "G", "H", "I", "J", "K", "L", "M",
      "N", "O", "P", "Q", "R", "S", "T", "U", "V", "W", "X", "Y", "Z">>

LowerLetters ==
    <<"a", "b", "c", "d", "e", "f", "g", "h", "i", "j", "k", "l", "m",
      "n", "o", "p", "q", "r", "s", "t", "u", "v", "w", "x", "y", "z">>

\* the characters of the names of the model, in byte order
ByteOrder == <<" ", "+", "-", ".", "/">> \o DigitChars \o UpperLetters \o LowerLetters

CharRank(c) == CHOOSE i \in 1..Len(ByteOrder) : ByteOrder[i] = c

\* str::cmp(left, right) = Less
RECURSIVE StrLess(_, _)
StrLess(left, right) ==
    IF left = <<>> THEN right # <<>>
    ELSE IF right = <<>> THEN FALSE
    ELSE IF Head(left) = Head(right) THEN StrLess(Tail(left), Tail(right))
    ELSE CharRank(Head(left)) < CharRank(Head(right))

LowerOf(c) ==
    IF \E i \in 1..Len(UpperLetters) : UpperLetters[i] = c
    THEN LowerLetters[CHOOSE i \in 1..Len(UpperLetters) : UpperLetters[i] = c]
    ELSE c

to_lowercase(s) == [i \in 1..Len(s) |-> LowerOf(s[i])]

RECURSIVE trim_start(_)
trim_start(s) ==
    IF s # <<>> /\ IsWhitespace(Head(s)) THEN trim_start(Tail(s)) ELSE s

RECURSIVE trim_end(_)
trim_end(s) ==
    IF s # <<>> /\ IsWhitespace(s[Len(s)]) THEN trim_end(SubSeq(s, 1, Len(s) - 1)) ELSE s

trim(s) == trim_end(trim_start(s))

starts_with(s, prefix) ==
    Len(prefix) <= Len(s) /\ SubSeq(s, 1, Len(prefix)) = prefix

ends_with(s, suffix) ==
    Len(suffix) <= Len(s) /\ SubSeq(s, Len(s) - Len(suffix) + 1, Len(s)) = suffix

contains(s, pattern) ==
    \E i \in 0..(Len(s) - Len(pattern)) : SubSeq(s, i + 1, i + Len(pattern)) = pattern

RECURSIVE trim_start_matches(_, _)
trim_start_matches(s, prefix) ==
    IF prefix # <<>> /\ starts_with(s, prefix)
    THEN trim_start_matches(SubSeq(s, Len(prefix) + 1, Len(s)), prefix)
    ELSE s

Max0(x) == IF x > 0 THEN x ELSE 0

Min(a, b) == IF a < b THEN a ELSE b

(***************************************************************************)
(* analyzer/categorizer.rs                                                 *)
(***************************************************************************)
CatDevelopment == <<"d", "e", "v", "e", "l", "o", "p", "m", "e", "n", "t">>
CatResearch == <<"r", "e", "s", "e", "a", "r", "c", "h">>
CatCommunication == <<"c", "o", "m", "m", "u", "n", "i", "c", "a", "t", "i", "o", "n">>
CatEntertainment == <<"e", "n", "t", "e", "r", "t", "a", "i", "n", "m", "e", "n", "t">>
CatSns == <<"s", "n", "s">>
CatShopping == <<"s", "h", "o", "p", "p", "i", "n", "g">>
CatOther == <<"o", "t", "h", "e", "r">>

\* the Korean aliases, one code point per character
KoDevelopment == <<"U+AC1C", "U+BC1C">>
KoCommunication == <<"U+CEE4", "U+BBA4", "U+B2C8", "U+CF00", "U+C774", "U+C158">>
KoResearch == <<"U+B9AC", "U+C11C", "U+CE58">>
KoEntertainment == <<"U+C5D4", "U+D130", "U+D14C", "U+C778", "U+BA3C", "U+D2B8">>
KoShopping == <<"U+C1FC", "U+D551">>
KoOther == <<"U+AE30", "U+D0C0">>

\* the label in lower case without blanks, whatever it is
NormalizeCategoryLowercased(raw) == to_lowercase(trim(raw))

\* normalize_category without its last arm: an unknown label is passed on
NormalizeCategoryPassing(raw) ==
    LET key == to_lowercase(trim(raw))
    IN  CASE key \in {CatDevelopment, <<"d", "e", "v">>, KoDevelopment} -> CatDevelopment
          [] key \in {CatCommunication, KoCommunication} -> CatCommunication
          [] key \in {CatResearch, KoResearch} -> CatResearch
          [] key \in {CatEntertainment, KoEntertainment} -> CatEntertainment
          [] key = CatSns -> CatSns
          [] key \in {CatShopping, KoShopping} -> CatShopping
          [] OTHER -> key

normalize_category(raw) ==
    LET key == to_lowercase(trim(raw))
    IN  CASE key \in {CatDevelopment, <<"d", "e", "v">>, KoDevelopment} -> CatDevelopment
          [] key \in {CatCommunication, KoCommunication} -> CatCommunication
          [] key \in {CatResearch, KoResearch} -> CatResearch
          [] key \in {CatEntertainment, KoEntertainment} -> CatEntertainment
          [] key = CatSns -> CatSns
          [] key \in {CatShopping, KoShopping} -> CatShopping
          [] key \in {CatOther, KoOther} -> CatOther
          [] OTHER -> CatOther

Www == <<"w", "w", "w", ".">>

\* the key and the value of one entry after CategoryRules::normalized
NormalizedAppEntry(entry) ==
    [key |-> to_lowercase(trim(entry.key)), value |-> normalize_category(entry.value)]

NormalizedDomainEntry(entry) ==
    [key   |-> to_lowercase(trim_start_matches(trim(entry.key), Www)),
     value |-> normalize_category(entry.value)]

\* the maps a set of entries can collect into: one value per key, and where
\* two entries normalize to the same key, the value of either of them
CollectedMaps(entries) ==
    LET keys == {e.key : e \in entries}
    IN  {m \in [keys -> {e.value : e \in entries}] :
            \A k \in keys : [key |-> k, value |-> m[k]] \in entries}

\* CategoryRules::load on a readable, well-formed file: the rule sets it can return
normalized(file) ==
    {[apps |-> a, domains |-> d] :
        a \in CollectedMaps({NormalizedAppEntry(e) : e \in file.apps}),
        d \in CollectedMaps({NormalizedDomainEntry(e) : e \in file.domains})}

NoRules == [apps |-> <<>>, domains |-> <<>>]

\* domain_matches without the dot before the rule
DomainMatchesBareSuffix(domain, rule) ==
    LET normalized_rule == to_lowercase(trim_start_matches(trim(rule), Www))
    IN  domain = normalized_rule \/ ends_with(domain, normalized_rule)

domain_matches(domain, rule) ==
    LET normalized_rule == to_lowercase(trim_start_matches(trim(rule), Www))
    IN  domain = normalized_rule \/ ends_with(domain, <<".">> \o normalized_rule)

\* the categories categorize_domain can return: the rules are searched in
\* the iteration order of a hash map and the first match is taken
categorize_domain(rules, domain) ==
    LET normalized_domain == to_lowercase(trim(domain))
        matching == {rule \in DOMAIN rules.domains : domain_matches(normalized_domain, rule)}
    IN  IF matching = {} THEN {CatOther}
        ELSE {normalize_category(rules.domains[rule]) : rule \in matching}

\* the categories categorize_app can return: the rule of the name itself,
\* else the first rule, in the iteration order of a hash map, whose key the
\* name contains
categorize_app(category_rules, app_name) ==
    LET normalized_name == to_lowercase(trim(app_name))
        matching == {key \in DOMAIN category_rules.apps : contains(normalized_name, key)}
    IN  IF normalized_name \in DOMAIN category_rules.apps
        THEN {normalize_category(category_rules.apps[normalized_name])}
        ELSE IF matching = {} THEN {CatOther}
        ELSE {normalize_category(category_rules.apps[key]) : key \in matching}

(***************************************************************************)
(* collector/chrome.rs: sync_chrome_visits_for_date                        *)
(***************************************************************************)
\* the orders in which a hash map can hand out its entries
Orderings(entries) ==
    {order \in [1..Cardinality(entries) -> entries] :
        \A i, j \in 1..Cardinality(entries) : i # j => order[i] # order[j]}

\* the visit lists the extractor can return for the per-domain totals of a date
sync_chrome_visits_for_date(rules, entries) ==
    LET domains == {e.domain : e \in entries}
        verdicts == {c \in [domains -> UNION {categorize_domain(rules, d) : d \in domains}] :
                        \A d \in domains : c[d] \in categorize_domain(rules, d)}
    IN  {[i \in 1..Len(order) |->
            [domain |-> order[i].domain, category |-> c[order[i].domain],
             duration_sec |-> order[i].duration_sec]] :
         order \in Orderings(entries), c \in verdicts}

(***************************************************************************)
(* ai/mod.rs: enrich_chrome_visits                                         *)
(***************************************************************************)
\* insights kept from one reply (line 131)
AI_INSIGHT_LIMIT == 8

\* the ways the remote call or the reading of its reply fails
CallFailures == {"network_error", "http_status", "empty_content", "worker_panic"}

ParseFailures == {"unparsable"}

EnrichErr == [ok |-> FALSE, value |-> [visits |-> <<>>, insights |-> <<>>]]

\* the label of the reply as it was written
RECURSIVE DomainMapGetRaw(_, _, _)
DomainMapGetRaw(items, key, default) ==
    IF items = <<>> THEN default
    ELSE LET item == items[Len(items)]
         IN  IF to_lowercase(trim(item.domain)) = key
             THEN item.category
             ELSE DomainMapGetRaw(SubSeq(items, 1, Len(items) - 1), key, default)

\* the category the reply gives for a domain: the map is collected from the
\* items in order, so the last item of a key wins
RECURSIVE DomainMapGet(_, _, _)
DomainMapGet(items, key, default) ==
    IF items = <<>> THEN default
    ELSE LET item == items[Len(items)]
         IN  IF to_lowercase(trim(item.domain)) = key
             THEN normalize_category(item.category)
             ELSE DomainMapGet(SubSeq(items, 1, Len(items) - 1), key, default)

Take(s, n) == SubSeq(s, 1, Min(n, Len(s)))

KeptInsights(insights) ==
    Take(SelectSeq([i \in 1..Len(insights) |-> trim(insights[i])],
                   LAMBDA entry : entry # <<>>),
         AI_INSIGHT_LIMIT)

enrich_chrome_visits(config, visits, reply) ==
    IF ~config.ai_enabled \/ visits = <<>>
    THEN Ok([visits |-> visits, insights |-> <<>>])
    ELSE IF ~config.has_api_key
    THEN Ok([visits |-> visits, insights |-> <<>>])
    ELSE IF reply.kind \in CallFailures \cup ParseFailures
    THEN EnrichErr
    ELSE Ok([visits |->
                [i \in 1..Len(visits) |->
                    [domain |-> visits[i].domain,
                     category |-> DomainMapGet(reply.domain_categories,
                                               to_lowercase(trim(visits[i].domain)),
                                               visits[i].category),
                     duration_sec |-> visits[i].duration_sec]],
             insights |-> KeptInsights(reply.insights)])

\* whether enrich_chrome_visits reaches the remote call at all
MakesRemoteCall(config, visits) ==
    config.ai_enabled /\ visits # <<>> /\ config.has_api_key

\* a fallback that stores nothing
EnrichmentOrNothing(outcome, visits) ==
    IF outcome.ok THEN outcome.value ELSE [visits |-> <<>>, insights |-> <<>>]

\* main.rs 348-354: the result of the enrichment, or the visits as extracted
EnrichmentOrFallback(outcome, visits) ==
    IF outcome.ok THEN outcome.value ELSE [visits |-> visits, insights |-> <<>>]

(***************************************************************************)
(* analyzer/report.rs                                                      *)
(***************************************************************************)
TOP_APPS == 5
TOP_DOMAINS == 10
\* a threshold one second above ninety minutes
EntertainmentAlertAbove == 90 * 60 + 1

ENTERTAINMENT_ALERT_SECONDS == 90 * 60
YOUTUBE_ALERT_SECONDS == 60 * 60
LOW_ACTIVITY_SECONDS == 60 * 60
SECONDS_PER_HOUR == 3600

\* the list without sns
CanonicalCategoriesWithoutSns ==
    <<CatDevelopment, CatResearch, CatCommunication, CatEntertainment, CatShopping, CatOther>>

canonical_categories ==
    <<CatDevelopment, CatResearch, CatCommunication, CatEntertainment,
      CatSns, CatShopping, CatOther>>

CanonicalSet == {canonical_categories[i] : i \in 1..Len(canonical_categories)}

sec_to_min(seconds) == Max0(seconds) \div SECONDS_PER_MINUTE

format_duration_seconds(seconds) ==
    LET hours == seconds \div SECONDS_PER_HOUR
        minutes == (seconds % SECONDS_PER_HOUR) \div SECONDS_PER_MINUTE
        remain_seconds == seconds % SECONDS_PER_MINUTE
    IN  IF hours > 0
        THEN IF remain_seconds = 0
             THEN Decimal(hours) \o <<"h", " ">> \o Decimal(minutes) \o <<"m">>
             ELSE Decimal(hours) \o <<"h", " ">> \o Decimal(minutes) \o <<"m", " ">>
                    \o Decimal(remain_seconds) \o <<"s">>
        ELSE IF minutes > 0
        THEN IF remain_seconds = 0
             THEN Decimal(minutes) \o <<"m">>
             ELSE Decimal(minutes) \o <<"m", " ">> \o Decimal(remain_seconds) \o <<"s">>
        ELSE Decimal(remain_seconds) \o <<"s">>

\* the sum of duration_sec.max(0) over rows
RECURSIVE SumSeconds(_)
SumSeconds(rows) ==
    IF rows = <<>> THEN 0 ELSE Max0(Head(rows).duration_sec) + SumSeconds(Tail(rows))

\* the fold of the rows into a map keyed by one of their fields
SecondsBy(rows, field) ==
    [key \in {rows[i][field] : i \in 1..Len(rows)} |->
        SumSeconds(SelectSeq(rows, LAMBDA row : row[field] = key))]

RECURSIVE SumValues(_, _)
SumValues(map, keys) ==
    IF keys = {} THEN 0
    ELSE LET k == CHOOSE k \in keys : TRUE
         IN  map[k] + SumValues(map, keys \ {k})

GetOrDefault(map, key) == IF key \in DOMAIN map THEN map[key] ELSE 0

\* seconds descending, then name descending
MetricBeforeNameDescending(left, right) ==
    \/ left.seconds > right.seconds
    \/ left.seconds = right.seconds /\ StrLess(right.name, left.name)

\* the comparison of items.sort_by: seconds descending, then name ascending
MetricBefore(left, right) ==
    \/ left.seconds > right.seconds
    \/ left.seconds = right.seconds /\ StrLess(left.name, right.name)

RECURSIVE SortMetrics(_)
SortMetrics(items) ==
    IF items = {} THEN <<>>
    ELSE LET first == CHOOSE m \in items : \A o \in items \ {m} : MetricBefore(m, o)
         IN  <<first>> \o SortMetrics(items \ {first})

top_n_metrics(source, n) ==
    Take(SortMetrics({[name |-> name, seconds |-> Max0(source[name]),
                       minutes |-> sec_to_min(source[name])] : name \in DOMAIN source}),
         n)

YouTube == <<"y", "o", "u", "t", "u", "b", "e", ".", "c", "o", "m">>

RECURSIVE FindYouTube(_)
FindYouTube(metrics) ==
    IF metrics = <<>> THEN <<>>
    ELSE IF contains(Head(metrics).name, YouTube) /\ Head(metrics).seconds >= YOUTUBE_ALERT_SECONDS
    THEN <<Head(metrics)>>
    ELSE FindYouTube(Tail(metrics))

\* a line of the anomaly list: its fixed text and the text formatted into it
Line(text, arg) == [text |-> text, arg |-> arg]

detect_anomalies(categories_seconds, top_domains, active_window_seconds, chrome_history_seconds) ==
    LET entertainment_seconds == GetOrDefault(categories_seconds, CatEntertainment)
        entertainment_alert ==
            IF entertainment_seconds >= ENTERTAINMENT_ALERT_SECONDS
            THEN <<Line("Entertainment usage is high: ",
                        format_duration_seconds(entertainment_seconds))>>
            ELSE <<>>
        found == FindYouTube(top_domains)
        youtube_alert ==
            IF found # <<>>
            THEN <<Line("YouTube session was unusually long: ",
                        format_duration_seconds(found[1].seconds))>>
            ELSE <<>>
        low_activity_alert ==
            IF active_window_seconds < LOW_ACTIVITY_SECONDS
            THEN <<Line("Total tracked time is below 1 hour", <<>>)>>
            ELSE <<>>
        overlap_hint ==
            IF chrome_history_seconds > active_window_seconds /\ chrome_history_seconds > 0
            THEN <<Line("Chrome history durations can overlap across tabs, so web time may exceed active window time", <<>>)>>
            ELSE <<>>
    IN  entertainment_alert \o youtube_alert \o low_activity_alert \o overlap_hint

build_daily_report(date, activities, domains, generated_at) ==
    LET activity_total_seconds == SumSeconds(activities)
        domain_seconds == [d \in DOMAIN SecondsBy(domains, "domain") |->
                              Max0(SecondsBy(domains, "domain")[d])]
        domain_total_seconds == SumValues(domain_seconds, DOMAIN domain_seconds)
        activity_category_seconds == SecondsBy(activities, "category")
        domain_category_seconds == SecondsBy(domains, "category")
        app_seconds == SecondsBy(activities, "app_name")
        categories ==
            [c \in CanonicalSet |-> sec_to_min(GetOrDefault(activity_category_seconds, c))]
        chrome_categories ==
            [c \in CanonicalSet |-> sec_to_min(GetOrDefault(domain_category_seconds, c))]
        categories_seconds ==
            [c \in CanonicalSet |-> Max0(GetOrDefault(activity_category_seconds, c))]
        chrome_categories_seconds ==
            [c \in CanonicalSet |-> Max0(GetOrDefault(domain_category_seconds, c))]
        top_apps == top_n_metrics(app_seconds, TOP_APPS)
        top_domains == top_n_metrics(domain_seconds, TOP_DOMAINS)
        anomalies == detect_anomalies(categories_seconds, top_domains,
                                      Max0(activity_total_seconds), Max0(domain_total_seconds))
    IN  [date |-> date,
         generated_at |-> generated_at,
         total_seconds |-> Max0(activity_total_seconds),
         total_minutes |-> sec_to_min(activity_total_seconds),
         active_window_seconds |-> Max0(activity_total_seconds),
         active_window_minutes |-> sec_to_min(activity_total_seconds),
         chrome_history_seconds |-> Max0(domain_total_seconds),
         chrome_history_minutes |-> sec_to_min(domain_total_seconds),
         categories_seconds |-> categories_seconds,
         categories |-> categories,
         chrome_categories_seconds |-> chrome_categories_seconds,
         chrome_categories |-> chrome_categories,
         top_apps |-> top_apps,
         top_domains |-> top_domains,
         anomalies |-> anomalies]

\* what render_markdown reads of a report: every field it formats, which
\* leaves out generated_at
render_markdown(report) ==
    [date |-> report.date,
     active_window_seconds |-> report.active_window_seconds,
     chrome_history_seconds |-> report.chrome_history_seconds,
     categories_seconds |-> report.categories_seconds,
     top_apps |-> report.top_apps,
     top_domains |-> report.top_domains,
     anomalies |-> report.anomalies]

(***************************************************************************)
(* analyzer/mod.rs: the anomaly list of generate_and_store_report          *)
(***************************************************************************)
\* the entries in order, each kept at its first occurrence only
RECURSIVE KeepFirst(_, _)
KeepFirst(entries, seen) ==
    IF entries = <<>> THEN <<>>
    ELSE IF Head(entries) \in seen THEN KeepFirst(Tail(entries), seen)
    ELSE <<Head(entries)>> \o KeepFirst(Tail(entries), seen \cup {Head(entries)})

AiLine(entry) == Line("AI insight: ", entry)

WithAiInsights(anomalies, ai_insights) ==
    KeepFirst(anomalies \o [i \in 1..Len(ai_insights) |-> AiLine(ai_insights[i])], {})

(***************************************************************************)
(* db/mod.rs: the visit rows of a date                                     *)
(***************************************************************************)
\* DELETE FROM chrome_visits WHERE date = ?1 that deletes nothing
DeleteNothing(rows) == rows

\* DELETE FROM chrome_visits WHERE date = ?1, on the rows of that date
DeleteForDate(rows) == <<>>

\* the rows other connections read while a transaction may be open
StoredRowsUncommitted(committed, transaction) ==
    IF transaction.active THEN transaction.work ELSE committed

\* the rows other connections read: those of the last commit
StoredRows(committed, transaction) == committed

\* ORDER BY duration_sec DESC
RECURSIVE InsertByDuration(_, _)
InsertByDuration(sorted, row) ==
    IF sorted = <<>> THEN <<row>>
    ELSE IF Head(sorted).duration_sec >= row.duration_sec
    THEN <<Head(sorted)>> \o InsertByDuration(Tail(sorted), row)
    ELSE <<row>> \o sorted

RECURSIVE chrome_visits_for_date(_)
chrome_visits_for_date(rows) ==
    IF rows = <<>> THEN <<>>
    ELSE InsertByDuration(chrome_visits_for_date(SubSeq(rows, 1, Len(rows) - 1)), rows[Len(rows)])

(***************************************************************************)
(* State                                                                   *)
(***************************************************************************)
\* scheduler/mod.rs: run_cron_scheduler
VARIABLES
    now,          \* the local clock, seconds since midnight of day 0
    source,       \* what schedule_provider() returns when called now
    edits,        \* how often the schedule source has been edited
    pc,           \* where run_cron_scheduler stands
    wakeAt,       \* the deadline of the sleep it is suspended in
    cron_expr,    \* the local cron_expr of the current loop iteration
    delay,        \* the local delay of the current loop iteration
    date,         \* the local date handed to the task
    runLog,       \* per date: how often the task was invoked, and whether it failed
    badFetch,     \* a fetch has failed or returned an invalid expression
    missed,       \* a poll sleep has ended at or after the instant it waited for
    editedToPast, \* the schedule was set to a time of day already gone, before the day's run
    pending       \* whether the schedule was edited since the last invocation

schedVars ==
    <<now, source, edits, pc, wakeAt, cron_expr, delay, date, runLog, badFetch, missed,
      editedToPast, pending>>

\* seconds_until_next_run applied to chosen arguments
VARIABLES
    delay_in,     \* the arguments: now, cron_expr and the zone's answers
    delay_out     \* the result, once the function has been called

delayVars == <<delay_in, delay_out>>

\* main.rs: run_daily_pipeline, with the store and the report files
VARIABLES
    config,          \* the configuration the runs read
    chrome_history,  \* per date, the per-domain totals the browser history holds
    visitsDb,        \* table chrome_visits: per date, the committed rows
    reportFiles,     \* per date, the Markdown and the JSON file of the report
    reportMeta,      \* table reports: per date, generated_at of the row, or -1
    utc,             \* the UTC clock
    runs,            \* invocations started
    ppc,             \* the step the current invocation is at
    pdate,           \* its date
    rules,           \* its loaded CategoryRules
    visits,          \* the extractor's visits
    reply,           \* what the remote service did when called
    enrichment,      \* the enrichment the later stages use
    txn,             \* the transaction of replace_chrome_visits_for_date
    report,          \* the report built
    observed,        \* what another connection last read of the date's rows
    stagesRun,       \* history: the steps this invocation has executed
    failedStage,     \* history: the step that failed, or "none"
    returned,        \* what the invocation returned: "none", "ok", "err"
    outcomes         \* history: per date, what each successful run left

pipeInputs == <<config, chrome_history>>

pipeStore == <<visitsDb, reportFiles, reportMeta>>

pipeLocals == <<rules, visits, reply, enrichment, txn, report>>

pipeControl == <<ppc, stagesRun, failedStage, returned>>

pipeVars ==
    <<pipeInputs, pipeStore, pipeLocals, pipeControl, utc, runs, pdate, observed, outcomes>>

\* collector/chrome.rs: sync_chrome_visits_for_date and collect_profile_visits
VARIABLES
    history_files,   \* per configured profile, the state of its History file
    tmp_writable,    \* whether std::env::temp_dir() accepts new directories
    clock_millis,    \* chrono::Utc::now().timestamp_millis()
    temp_dirs,       \* per directory name under temp_dir(), what it holds
    calls            \* per call of sync_chrome_visits_for_date, its position and locals

extractVars == <<history_files, tmp_writable, clock_millis, temp_dirs, calls>>

\* main.rs: run_service, the select! over the four long-lived futures
VARIABLES
    svc_clock,       \* seconds since the service started
    svc_result,      \* "running", or what run_service returned: "ok", "err"
    to_poll,         \* the branches the select! has still to poll in this pass
    occupied,        \* the blocking code the select! task is inside: "none", "collector", "pipeline"
    tick_at,         \* the collector ticker's next deadline
    sched_sleep,     \* the sleep the scheduler is suspended in and its deadline
    pipe_stage,      \* the stage of run_daily_pipeline being executed, 0 when none is
    invocations,     \* history: pipeline invocations started, completed, failed
    api_state,       \* "binding", "serving"
    conn_waiting,    \* a connection waits to be accepted
    ctrl_c,          \* signal::ctrl_c(): "pending", "signal", "error"
    finished,        \* history: the branch that completed and its result
    signal_ctx       \* history: where the scheduler stood when the signal arrived

serviceVars ==
    <<svc_clock, svc_result, to_poll, occupied, tick_at, sched_sleep, pipe_stage, invocations,
      api_state, conn_waiting, ctrl_c, finished, signal_ctx>>

\* the pure functions of analyzer/ and scheduler/, applied to one input at a time
VARIABLES
    fn_name,         \* the function applied, "none" before the call
    fn_args,         \* its arguments
    fn_value         \* what it returned

fnVars == <<fn_name, fn_args, fn_value>>

\* the parts of the program outside the scheduler, the delay and the pipeline
restVars == <<extractVars, serviceVars, fnVars>>

\* all but the extractor, all but the service, all but the pure functions
notExtract == <<schedVars, delayVars, pipeVars, serviceVars, fnVars>>

notService == <<schedVars, delayVars, pipeVars, extractVars, fnVars>>

notFn == <<schedVars, delayVars, pipeVars, extractVars, serviceVars>>

vars == <<schedVars, delayVars, pipeVars, restVars>>

(***************************************************************************)
(* scheduler/mod.rs: run_cron_scheduler                                    *)
(***************************************************************************)
ProviderErr == [ok |-> FALSE, value |-> <<>>]

\* schedule values of the exploration: 00:01, 00:02, and an expression that
\* is not a daily one
CronA == FormatCron(1, 0)

CronB == FormatCron(2, 0)

CronEveryFive == <<"*", "/", "5", " ", "*", " ", "*", " ", "*", " ", "*">>

\* a report at midnight: the final sleep before it begins on the day before
CronMidnight == FormatCron(0, 0)

SourceValues == {Ok(CronA), Ok(CronB), Ok(CronMidnight), Ok(CronEveryFive), ProviderErr}

Horizon == MaxDays * DayLen

Dates == 0..MaxDays

\* the delay the scheduler computes: its zone has no clock transition
SchedDelay(t, expr) == seconds_until_next_run(DayLen, t, expr, "Single", "Single")

\* the time of day an expression asks for, -1 when it is invalid
TargetOf(expr) ==
    IF parse_daily_cron_time(expr).ok THEN SecondsOfDay(parse_daily_cron_time(expr)) ELSE -1

\* a loop that sleeps the whole delay in one piece
ExceedsPollNever(d) == FALSE

\* line 49: a delay above the poll interval is not slept in one piece
ExceedsPoll(d) == d > RESCHEDULE_POLL_SECONDS

\* a loop that propagates the task's error with `?`
AfterTaskPropagating(result) == IF result = "err" THEN "returned" ELSE "sleep_settle"

\* lines 59-63: whatever the task returned, the loop goes on to the settle sleep
AfterTask(result) == "sleep_settle"

\* a loop that propagates the provider's error with `?`
AfterBadSchedulePropagating(fetched) == IF fetched.ok THEN "sleep_retry" ELSE "returned"

\* lines 28-32 and 37-41: a failed fetch and an invalid expression both
\* sleep the poll interval and start the loop again
AfterBadSchedule(fetched) == "sleep_retry"

\* the date of the day on which the final sleep began
DateAtComputation(slept_from, woke_at) == DateOf(DayLen, slept_from)

\* line 56: Local::now().date_naive() after the final sleep
DateAtInvocation(slept_from, woke_at) == DateOf(DayLen, woke_at)

SchedStart ==
    /\ now = 0
    /\ edits = 0
    /\ pc = "compute"
    /\ wakeAt = 0
    /\ cron_expr = <<>>
    /\ delay = 0
    /\ date = 0
    /\ runLog = [d \in Dates |-> [count |-> 0, failed |-> FALSE]]
    /\ badFetch = FALSE
    /\ missed = FALSE
    /\ editedToPast = FALSE
    /\ pending = "none"

SchedInit ==
    /\ source \in SourceValues
    /\ SchedStart

SchedIdle ==
    /\ source = ProviderErr
    /\ SchedStart

\* lines 26-54: fetch the schedule, compute the delay, choose the sleep
ComputeDelay ==
    /\ pc = "compute"
    /\ now < Horizon
    /\ LET fetched == source
           d       == SchedDelay(now, fetched.value)
       IN  IF ~fetched.ok
           THEN /\ pc' = AfterBadSchedule(fetched)
                /\ wakeAt' = now + RESCHEDULE_POLL_SECONDS
                /\ badFetch' = TRUE
                /\ UNCHANGED <<cron_expr, delay>>
           ELSE IF ~d.ok
           THEN /\ pc' = AfterBadSchedule(fetched)
                /\ wakeAt' = now + RESCHEDULE_POLL_SECONDS
                /\ badFetch' = TRUE
                /\ cron_expr' = fetched.value
                /\ UNCHANGED delay
           ELSE /\ cron_expr' = fetched.value
                /\ delay' = d.secs
                /\ badFetch' = badFetch
                /\ IF ExceedsPoll(d.secs)
                   THEN /\ pc' = "sleep_poll"
                        /\ wakeAt' = now + RESCHEDULE_POLL_SECONDS
                   ELSE /\ pc' = "sleep_delay"
                        /\ wakeAt' = now + d.secs
    /\ UNCHANGED <<now, source, edits, date, runLog, missed, editedToPast, pending>>
    /\ UNCHANGED <<delayVars, pipeVars, restVars>>

\* a sleep of the loop ends, at its deadline or a little after it, and the
\* loop starts its next iteration: the locals of the iteration are gone
Wake(from, to) ==
    /\ pc = from
    /\ \E j \in 0..MaxJitter : now' = wakeAt + j
    /\ pc' = to
    /\ missed' = (missed \/ (from = "sleep_poll" /\ now' >= wakeAt - RESCHEDULE_POLL_SECONDS + delay))
    /\ wakeAt' = 0
    /\ cron_expr' = <<>>
    /\ delay' = 0
    /\ date' = 0
    /\ UNCHANGED <<source, edits, runLog, badFetch, editedToPast, pending>>
    /\ UNCHANGED <<delayVars, pipeVars, restVars>>

\* lines 30 and 39: the retry sleep ends
WakeRetry == Wake("sleep_retry", "compute")

\* line 50: the poll sleep ends
WakePoll == Wake("sleep_poll", "compute")

\* line 63: the settle sleep ends
WakeSettle == Wake("sleep_settle", "compute")

\* lines 54-57: the final sleep ends, the date is read and the task invoked
Fire ==
    /\ pc = "sleep_delay"
    /\ \E j \in 0..MaxJitter : now' = wakeAt + j
    /\ date' = DateAtInvocation(wakeAt - delay, now')
    /\ runLog' = [runLog EXCEPT ![date'].count = IF @ < 2 THEN @ + 1 ELSE @]
    /\ pc' = "task"
    /\ pending' = "none"
    /\ wakeAt' = 0
    /\ UNCHANGED <<source, edits, cron_expr, delay, badFetch, missed, editedToPast>>
    /\ UNCHANGED <<delayVars, pipeVars, restVars>>

\* lines 57-63: the task returns Ok or Err after some time
TaskDone ==
    /\ pc = "task"
    /\ \E dur \in 0..MaxTaskSeconds, result \in {"ok", "err"} :
        /\ now' = now + dur
        /\ runLog' = [runLog EXCEPT ![date].failed = @ \/ (result = "err")]
        /\ pc' = AfterTask(result)
        /\ wakeAt' = now' + SETTLE_SECONDS
    /\ UNCHANGED <<source, edits, cron_expr, delay, date, badFetch, missed, editedToPast,
                   pending>>
    /\ UNCHANGED <<delayVars, pipeVars, restVars>>

\* the schedule source changes (the configuration is edited, or becomes
\* unreadable) while the scheduler runs.  pending records whether the new
\* value is a time more than one poll interval ahead, and whether the
\* scheduler was then in a final sleep of at most the poll interval.
EditSchedule ==
    /\ edits < MaxEdits
    /\ now < Horizon
    /\ pc # "returned"
    /\ \E v \in SourceValues \ {source} :
        /\ source' = v
        /\ pending' =
              IF v.ok /\ SchedDelay(now, v.value).ok
                      /\ SchedDelay(now, v.value).secs > RESCHEDULE_POLL_SECONDS
              THEN (IF pc = "sleep_delay" /\ wakeAt - now <= RESCHEDULE_POLL_SECONDS
                    THEN "old_trigger_near" ELSE "old_trigger_far")
              ELSE "none"
        /\ editedToPast' =
              (editedToPast \/ (/\ TargetOf(v.value) >= 0
                                /\ TargetOf(v.value) <= TimeOfDay(DayLen, now)
                                /\ runLog[DateOf(DayLen, now)].count = 0))
    /\ edits' = edits + 1
    /\ UNCHANGED <<now, pc, wakeAt, cron_expr, delay, date, runLog, badFetch, missed>>
    /\ UNCHANGED <<delayVars, pipeVars, restVars>>

SchedNext ==
    \/ ComputeDelay
    \/ WakeRetry
    \/ WakePoll
    \/ Fire
    \/ TaskDone
    \/ WakeSettle
    \/ EditSchedule

(***************************************************************************)
(* seconds_until_next_run applied to chosen instants and expressions, over *)
(* the real day                                                            *)
(***************************************************************************)
NotCalled == [ok |-> FALSE, secs |-> -1]

HMS(h, m, sec) == (h * MINUTES_PER_HOUR + m) * SECONDS_PER_MINUTE + sec

DelayNows ==
    {d * REAL_DAY_SECONDS + HMS(h, m, sec) :
        d \in {0, 1}, h \in {0, 10, 23}, m \in {0, 30, 35, 59}, sec \in {0, 1, 59}}

DelayCrons ==
    {FormatCron(m, h) : m \in {0, 30, 59}, h \in {0, 10, 23}} \cup {CronEveryFive}

DelayInputs ==
    [now : DelayNows, cron_expr : DelayCrons,
     today_local : LocalResults, tomorrow_local : LocalResults]

DelayIdle ==
    /\ delay_in = [now |-> 0, cron_expr |-> <<>>,
                   today_local |-> "Single", tomorrow_local |-> "Single"]
    /\ delay_out = NotCalled

DelayInit ==
    /\ delay_in \in DelayInputs
    /\ delay_out = NotCalled

CallSecondsUntilNextRun ==
    /\ delay_out = NotCalled
    /\ delay_out' = seconds_until_next_run(REAL_DAY_SECONDS, delay_in.now, delay_in.cron_expr,
                                           delay_in.today_local, delay_in.tomorrow_local)
    /\ UNCHANGED <<delay_in, schedVars, pipeVars, restVars>>

(***************************************************************************)
(* main.rs: run_daily_pipeline                                             *)
(***************************************************************************)
PipeDates == {0, 1}

Configs ==
    {[ai_enabled |-> TRUE, has_api_key |-> TRUE, notify_on_report |-> TRUE],
     [ai_enabled |-> TRUE, has_api_key |-> FALSE, notify_on_report |-> FALSE]}

\* the categories file
RulesFile ==
    [apps    |-> {[key |-> <<"C", "o", "d", "e">>, value |-> <<"d", "e", "v", "e", "l", "o", "p", "m", "e", "n", "t">>],
                  [key |-> <<" ", "S", "a", "f", "a", "r", "i">>, value |-> <<"E", "n", "t", "e", "r", "t", "a", "i", "n", "m", "e", "n", "t", " ">>]},
     domains |-> {[key |-> <<"w", "w", "w", ".", "Y", "o", "u", "T", "u", "b", "e", ".", "c", "o", "m">>, value |-> <<"E", "n", "t", "e", "r", "t", "a", "i", "n", "m", "e", "n", "t">>],
                  [key |-> <<"d", "o", "c", "s", ".", "i", "o">>, value |-> <<" ", "d", "e", "v">>]}]

Visited(domain, duration_sec) == [domain |-> domain, duration_sec |-> duration_sec]

Histories ==
    {[d \in PipeDates |->
        IF d = 0
        THEN {Visited(<<"m", ".", "y", "o", "u", "t", "u", "b", "e", ".", "c", "o", "m">>, 5400), Visited(<<"d", "o", "c", "s", ".", "i", "o">>, 120)}
        ELSE {Visited(<<"n", "e", "w", "s", ".", "n", "e", "t">>, 60)}],
     [d \in PipeDates |->
        IF d = 0
        THEN {Visited(<<"b", ".", "d", "o", "c", "s", ".", "i", "o">>, 120), Visited(<<"a", ".", "d", "o", "c", "s", ".", "i", "o">>, 120)}
        ELSE {}]}

\* the rules as the collector loaded them when it started
CollectorRules == CHOOSE loaded \in normalized(RulesFile) : TRUE

\* collector/mod.rs lines 24-35: the row stored for a sample of the active
\* window, its category being what categorize_app gives under the rules
Sampled(app_name, duration_sec) ==
    [app_name |-> app_name,
     category |-> CHOOSE category \in categorize_app(CollectorRules, app_name) : TRUE,
     duration_sec |-> duration_sec]

\* the rows of table activities for date 0
SampledRows == <<Sampled(<<"c", "o", "d", "e">>, 3000), Sampled(<<"s", "a", "f", "a", "r", "i">>, 500), Sampled(<<"c", "o", "d", "e">>, -5)>>

\* table activities, which the pipeline only reads
ActivitiesTable == [d \in PipeDates |-> IF d = 0 THEN SampledRows ELSE <<>>]

activities_for_date(day) == ActivitiesTable[day]

NoReply == [kind |-> "none", domain_categories |-> <<>>, insights |-> <<>>]

Replies ==
    {[kind |-> k, domain_categories |-> <<>>, insights |-> <<>>] :
        k \in CallFailures \cup ParseFailures}
    \cup
    {[kind |-> "ok",
      domain_categories |->
          <<[domain |-> <<" ", "D", "o", "c", "s", ".", "i", "o">>, category |-> <<"R", "e", "s", "e", "a", "r", "c", "h", " ">>],
            [domain |-> <<"e", "l", "s", "e", "w", "h", "e", "r", "e", ".", "n", "e", "t">>, category |-> <<"f", "u", "n">>]>>,
      insights |-> <<<<" ", "d", "e", "e", "p", " ", "w", "o", "r", "k", " ">>, <<" ", " ">>, <<"d", "e", "e", "p", " ", "w", "o", "r", "k">>>>]}

NoEnrichment == [visits |-> <<>>, insights |-> <<>>]

NoTxn == [active |-> FALSE, before |-> [d \in PipeDates |-> <<>>], work |-> <<>>, done |-> 0]

NoReport == [date |-> -1]

NoFiles == [md |-> NoReport, json |-> NoReport]

NoObservation == [seen |-> FALSE, rows |-> <<>>]

PipeStart ==
    /\ visitsDb = [d \in PipeDates |-> <<>>]
    /\ reportFiles = [d \in PipeDates |-> NoFiles]
    /\ reportMeta = [d \in PipeDates |-> -1]
    /\ utc = 0
    /\ runs = 0
    /\ ppc = "idle"
    /\ pdate = 0
    /\ rules = NoRules
    /\ visits = <<>>
    /\ reply = NoReply
    /\ enrichment = NoEnrichment
    /\ txn = NoTxn
    /\ report = NoReport
    /\ observed = NoObservation
    /\ stagesRun = <<>>
    /\ failedStage = "none"
    /\ returned = "none"
    /\ outcomes = [d \in PipeDates |-> <<>>]

PipeIdle ==
    /\ config = [ai_enabled |-> FALSE, has_api_key |-> FALSE, notify_on_report |-> FALSE]
    /\ chrome_history = [d \in PipeDates |-> {}]
    /\ PipeStart

PipeInit ==
    /\ config \in Configs
    /\ chrome_history \in Histories
    /\ PipeStart

\* a stage whose failure is not returned
NextStageIgnoringFailure(ok, next) == next

\* the ? after a fallible stage: its error is returned, otherwise the next stage runs
NextStage(ok, next) == IF ok THEN next ELSE "done"

\* the bookkeeping of one fallible step
Advance(step, ok, next) ==
    /\ ppc' = NextStage(ok, next)
    /\ stagesRun' = Append(stagesRun, step)
    /\ failedStage' = IF ok THEN failedStage ELSE step
    /\ returned' = IF ok THEN returned ELSE "err"

StartRun(for_date) ==
    /\ ppc \in {"idle", "done"}
    /\ runs < MaxRuns
    /\ runs' = runs + 1
    /\ utc' = utc + 1
    /\ pdate' = for_date
    /\ ppc' = "load_rules"
    /\ stagesRun' = <<>>
    /\ failedStage' = "none"
    /\ returned' = "none"
    /\ rules' = NoRules
    /\ visits' = <<>>
    /\ reply' = NoReply
    /\ enrichment' = NoEnrichment
    /\ txn' = NoTxn
    /\ report' = NoReport
    /\ observed' = NoObservation
    /\ UNCHANGED <<pipeInputs, pipeStore, outcomes, schedVars, delayVars, restVars>>

LoadRules ==
    /\ ppc = "load_rules"
    /\ \E ok \in BOOLEAN, loaded \in normalized(RulesFile) :
        /\ Advance("load_rules", ok, "extract")
        /\ rules' = IF ok THEN loaded ELSE rules
    /\ UNCHANGED <<pipeInputs, pipeStore, visits, reply, enrichment, txn, report,
                   utc, runs, pdate, observed, outcomes, schedVars, delayVars, restVars>>

Extract ==
    /\ ppc = "extract"
    /\ \E ok \in BOOLEAN, extracted \in sync_chrome_visits_for_date(rules, chrome_history[pdate]) :
        /\ Advance("extract", ok, "enrich")
        /\ visits' = IF ok THEN extracted ELSE visits
    /\ UNCHANGED <<pipeInputs, pipeStore, rules, reply, enrichment, txn, report,
                   utc, runs, pdate, observed, outcomes, schedVars, delayVars, restVars>>

Enrich ==
    /\ ppc = "enrich"
    /\ \E r \in IF MakesRemoteCall(config, visits) THEN Replies ELSE {NoReply} :
        /\ reply' = r
        /\ enrichment' = EnrichmentOrFallback(enrich_chrome_visits(config, visits, r), visits)
    /\ ppc' = "open_db"
    /\ stagesRun' = Append(stagesRun, "enrich")
    /\ UNCHANGED <<pipeInputs, pipeStore, rules, visits, txn, report, failedStage, returned,
                   utc, runs, pdate, observed, outcomes, schedVars, delayVars, restVars>>

OpenDb ==
    /\ ppc = "open_db"
    /\ \E ok \in BOOLEAN : Advance("open_db", ok, "txn_begin")
    /\ UNCHANGED <<pipeInputs, pipeStore, pipeLocals,
                   utc, runs, pdate, observed, outcomes, schedVars, delayVars, restVars>>

TxnBegin ==
    /\ ppc = "txn_begin"
    /\ \E ok \in BOOLEAN :
        /\ Advance("txn_begin", ok, "txn_delete")
        /\ txn' = [active |-> ok, before |-> visitsDb, work |-> visitsDb[pdate], done |-> 0]
    /\ UNCHANGED <<pipeInputs, pipeStore, rules, visits, reply, enrichment, report,
                   utc, runs, pdate, observed, outcomes, schedVars, delayVars, restVars>>

TxnDelete ==
    /\ ppc = "txn_delete"
    /\ \E ok \in BOOLEAN :
        /\ Advance("txn_delete", ok,
                   IF enrichment.visits = <<>> THEN "txn_commit" ELSE "txn_insert")
        /\ txn' = IF ok THEN [txn EXCEPT !.work = DeleteForDate(txn.work)]
                        ELSE [txn EXCEPT !.active = FALSE]
    /\ UNCHANGED <<pipeInputs, pipeStore, rules, visits, reply, enrichment, report,
                   utc, runs, pdate, observed, outcomes, schedVars, delayVars, restVars>>

TxnInsert ==
    /\ ppc = "txn_insert"
    /\ \E ok \in BOOLEAN :
        /\ Advance("txn_insert", ok,
                   IF txn.done + 1 = Len(enrichment.visits) THEN "txn_commit" ELSE "txn_insert")
        /\ txn' = IF ok THEN [txn EXCEPT !.work = Append(txn.work, enrichment.visits[txn.done + 1]),
                                         !.done = txn.done + 1]
                        ELSE [txn EXCEPT !.active = FALSE]
    /\ UNCHANGED <<pipeInputs, pipeStore, rules, visits, reply, enrichment, report,
                   utc, runs, pdate, observed, outcomes, schedVars, delayVars, restVars>>

TxnCommit ==
    /\ ppc = "txn_commit"
    /\ \E ok \in BOOLEAN :
        /\ Advance("txn_commit", ok, "report_open")
        /\ visitsDb' = IF ok THEN [visitsDb EXCEPT ![pdate] = txn.work] ELSE visitsDb
    /\ txn' = [txn EXCEPT !.active = FALSE]
    /\ UNCHANGED <<pipeInputs, reportFiles, reportMeta, rules, visits, reply, enrichment, report,
                   utc, runs, pdate, observed, outcomes, schedVars, delayVars, restVars>>

\* another connection reads the rows of the date while the transaction is open
ConcurrentQuery ==
    /\ ppc \in {"txn_delete", "txn_insert", "txn_commit"}
    /\ observed' = [seen |-> TRUE, rows |-> StoredRows(visitsDb[pdate], txn)]
    /\ observed' # observed
    /\ UNCHANGED <<pipeInputs, pipeStore, pipeLocals, pipeControl,
                   utc, runs, pdate, outcomes, schedVars, delayVars, restVars>>

ReportOpen ==
    /\ ppc = "report_open"
    /\ \E ok \in BOOLEAN : Advance("report_open", ok, "report_read")
    /\ UNCHANGED <<pipeInputs, pipeStore, pipeLocals,
                   utc, runs, pdate, observed, outcomes, schedVars, delayVars, restVars>>

ReportRead ==
    /\ ppc = "report_read"
    /\ \E ok \in BOOLEAN :
        /\ Advance("report_read", ok, "write_md")
        /\ report' =
            IF ok
            THEN LET built == build_daily_report(pdate, activities_for_date(pdate),
                                                 chrome_visits_for_date(visitsDb[pdate]), utc)
                 IN  [built EXCEPT !.anomalies = WithAiInsights(built.anomalies, enrichment.insights)]
            ELSE report
    /\ UNCHANGED <<pipeInputs, pipeStore, rules, visits, reply, enrichment, txn,
                   utc, runs, pdate, observed, outcomes, schedVars, delayVars, restVars>>

WriteMd ==
    /\ ppc = "write_md"
    /\ \E ok \in BOOLEAN :
        /\ Advance("write_md", ok, "write_json")
        /\ reportFiles' = IF ok THEN [reportFiles EXCEPT ![pdate].md = render_markdown(report)]
                                ELSE reportFiles
    /\ UNCHANGED <<pipeInputs, visitsDb, reportMeta, pipeLocals,
                   utc, runs, pdate, observed, outcomes, schedVars, delayVars, restVars>>

WriteJson ==
    /\ ppc = "write_json"
    /\ \E ok \in BOOLEAN :
        /\ Advance("write_json", ok, "upsert_meta")
        /\ reportFiles' = IF ok THEN [reportFiles EXCEPT ![pdate].json = report]
                                ELSE reportFiles
    /\ UNCHANGED <<pipeInputs, visitsDb, reportMeta, pipeLocals,
                   utc, runs, pdate, observed, outcomes, schedVars, delayVars, restVars>>

UpsertMeta ==
    /\ ppc = "upsert_meta"
    /\ \E ok \in BOOLEAN :
        /\ Advance("upsert_meta", ok, "notify")
        /\ reportMeta' = IF ok THEN [reportMeta EXCEPT ![pdate] = utc] ELSE reportMeta
    /\ UNCHANGED <<pipeInputs, visitsDb, reportFiles, pipeLocals,
                   utc, runs, pdate, observed, outcomes, schedVars, delayVars, restVars>>

\* the notification, when configured, and the return of Ok
NotifyAndReturn ==
    /\ ppc = "notify"
    /\ ppc' = "done"
    /\ stagesRun' = IF config.notify_on_report THEN Append(stagesRun, "notify") ELSE stagesRun
    /\ returned' = "ok"
    /\ outcomes' = [outcomes EXCEPT ![pdate] =
                        Append(@, [reply |-> reply, rows |-> visitsDb[pdate],
                                   md |-> reportFiles[pdate].md,
                                   json |-> reportFiles[pdate].json])]
    /\ UNCHANGED <<pipeInputs, pipeStore, pipeLocals, failedStage,
                   utc, runs, pdate, observed, schedVars, delayVars, restVars>>

PipeNext ==
    \/ \E for_date \in PipeDates : StartRun(for_date)
    \/ LoadRules
    \/ Extract
    \/ Enrich
    \/ OpenDb
    \/ TxnBegin
    \/ TxnDelete
    \/ TxnInsert
    \/ TxnCommit
    \/ ConcurrentQuery
    \/ ReportOpen
    \/ ReportRead
    \/ WriteMd
    \/ WriteJson
    \/ UpsertMeta
    \/ NotifyAndReturn

(***************************************************************************)
(* collector/chrome.rs: the extractor, one file-system operation at a time *)
(***************************************************************************)
\* last value of the millisecond clock
MaxMillis == 1

\* config.chrome_profiles, in the configured order
chrome_profiles == <<"Default", "Profile 1">>

ProfileNames == {chrome_profiles[i] : i \in DOMAIN chrome_profiles}

\* a History file is absent, sound, present but not copyable, or copyable but not a
\* database the query runs on
HistoryStates == {"missing", "good", "nocopy", "noquery"}

\* the calls that can overlap: the scheduler's run and a run started by hand
ExtractRuns == {"scheduled", "manual"}

\* the date each call extracts
RunDate(run) == IF run = "scheduled" THEN 0 ELSE 1

\* what read_history_visits returns for a sound copy of a profile's History and a date
HistoryVisits(profile, day) ==
    IF profile = "Default"
    THEN IF day = 0
         THEN <<Visited(<<"a", ".", "i", "o">>, 60), Visited(<<"b", ".", "i", "o">>, 30)>>
         ELSE <<Visited(<<"a", ".", "i", "o">>, 10)>>
    ELSE IF day = 0
         THEN <<Visited(<<"a", ".", "i", "o">>, 40)>>
         ELSE <<Visited(<<"c", ".", "i", "o">>, 20)>>

\* the result of one collect_profile_visits
Collected(rows) == [ok |-> TRUE, rows |-> rows]

CollectFailed == [ok |-> FALSE, rows |-> <<>>]

\* the result of one sync_chrome_visits_for_date
Synced(listed) == [ok |-> TRUE, visits |-> listed]

SyncFailed == [ok |-> FALSE, visits |-> <<>>]

NotReturned == [ok |-> FALSE, visits |-> <<"pending">>]

\* path.exists() of line 21
PathExistsAlways(state) == TRUE

PathExists(state) == state # "missing"

\* into_iter().flatten() of lines 24-25
RECURSIVE Flatten(_)
Flatten(lists) == IF lists = <<>> THEN <<>> ELSE Head(lists) \o Flatten(Tail(lists))

RECURSIVE DomainTotal(_, _)
DomainTotal(domain, pairs) ==
    IF pairs = <<>>
    THEN 0
    ELSE (IF Head(pairs).domain = domain THEN Head(pairs).duration_sec ELSE 0)
         + DomainTotal(domain, Tail(pairs))

\* the fold of lines 26-30: one entry per domain, its durations added up
FoldEntries(lists) ==
    LET flat == Flatten(lists)
    IN  {Visited(domain, DomainTotal(domain, flat)) : domain \in {flat[i].domain : i \in DOMAIN flat}}

IdleCall ==
    [pc |-> "idle", index |-> 1, temp_dir |-> -1, result |-> CollectFailed,
     collected |-> <<>>, made |-> {}, left |-> {}, outcome |-> NotReturned]

ExtractIdle ==
    /\ history_files = [profile \in ProfileNames |-> "missing"]
    /\ tmp_writable = TRUE
    /\ clock_millis = 0
    /\ temp_dirs = [name \in 0..MaxMillis |-> "none"]
    /\ calls = [run \in ExtractRuns |-> IdleCall]

ExtractInit ==
    /\ history_files \in [ProfileNames -> HistoryStates]
    /\ tmp_writable \in BOOLEAN
    /\ clock_millis = 0
    /\ temp_dirs = [name \in 0..MaxMillis |-> "none"]
    /\ calls = [run \in ExtractRuns |-> IdleCall]

\* the `?` of lines 23, 66 and 75 and the Err of line 80: the call returns the error
\* and leaves the directories as they are
ReturnErr(run, dirs) ==
    calls' = [calls EXCEPT ![run].pc = "returned", ![run].outcome = SyncFailed,
                           ![run].left = {name \in calls[run].made : dirs[name] # "none"}]

\* sync_chrome_visits_for_date is entered
CallSync(run) ==
    /\ calls[run].pc = "idle"
    /\ calls' = [calls EXCEPT ![run].pc = "select"]
    /\ UNCHANGED <<history_files, tmp_writable, clock_millis, temp_dirs>>
    /\ UNCHANGED notExtract

\* lines 18-23 and 24-42: the next profile of the iterator; a missing History is
\* filtered out, an existing one gets its directory name (lines 56-59), and after the
\* last profile the entries are folded and categorised
SelectProfile(run) ==
    /\ calls[run].pc = "select"
    /\ IF calls[run].index > Len(chrome_profiles)
       THEN \E listed \in sync_chrome_visits_for_date(NoRules, FoldEntries(calls[run].collected)) :
                calls' = [calls EXCEPT ![run].pc = "returned", ![run].outcome = Synced(listed),
                                       ![run].left = {name \in calls[run].made : temp_dirs[name] # "none"}]
       ELSE IF PathExists(history_files[chrome_profiles[calls[run].index]])
            THEN calls' = [calls EXCEPT ![run].pc = "mkdir", ![run].temp_dir = clock_millis]
            ELSE calls' = [calls EXCEPT ![run].index = @ + 1]
    /\ UNCHANGED <<history_files, tmp_writable, clock_millis, temp_dirs>>
    /\ UNCHANGED notExtract

\* lines 61-66: fs::create_dir_all
CreateDirAll(run) ==
    /\ calls[run].pc = "mkdir"
    /\ IF tmp_writable
       THEN /\ temp_dirs' = [temp_dirs EXCEPT ![calls[run].temp_dir] = IF @ = "none" THEN "empty" ELSE @]
            /\ calls' = [calls EXCEPT ![run].pc = "copy",
                                      ![run].made = IF temp_dirs[calls[run].temp_dir] = "none"
                                                    THEN @ \cup {calls[run].temp_dir} ELSE @]
       ELSE /\ ReturnErr(run, temp_dirs)
            /\ UNCHANGED temp_dirs
    /\ UNCHANGED <<history_files, tmp_writable, clock_millis>>
    /\ UNCHANGED notExtract

\* lines 68-75: fs::copy of the profile's History into the directory
CopyHistory(run) ==
    /\ calls[run].pc = "copy"
    /\ IF history_files[chrome_profiles[calls[run].index]] = "nocopy"
          \/ temp_dirs[calls[run].temp_dir] = "none"
       THEN /\ ReturnErr(run, temp_dirs)
            /\ UNCHANGED temp_dirs
       ELSE /\ temp_dirs' = [temp_dirs EXCEPT ![calls[run].temp_dir] = chrome_profiles[calls[run].index]]
            /\ calls' = [calls EXCEPT ![run].pc = "read"]
    /\ UNCHANGED <<history_files, tmp_writable, clock_millis>>
    /\ UNCHANGED notExtract

\* line 77: read_history_visits on whatever the directory holds now
ReadHistoryVisits(run) ==
    /\ calls[run].pc = "read"
    /\ LET held == temp_dirs[calls[run].temp_dir]
       IN  calls' = [calls EXCEPT ![run].pc = "rmdir",
                                  ![run].result =
                                      IF held \in ProfileNames /\ history_files[held] = "good"
                                      THEN Collected(HistoryVisits(held, RunDate(run)))
                                      ELSE CollectFailed]
    /\ UNCHANGED <<history_files, tmp_writable, clock_millis, temp_dirs>>
    /\ UNCHANGED notExtract

\* lines 78-80: fs::remove_dir_all, its own result dropped, then the query's result
RemoveDirAll(run) ==
    /\ calls[run].pc = "rmdir"
    /\ temp_dirs' = [temp_dirs EXCEPT ![calls[run].temp_dir] = "none"]
    /\ IF calls[run].result.ok
       THEN calls' = [calls EXCEPT ![run].pc = "select", ![run].index = @ + 1,
                                   ![run].collected = Append(@, calls[run].result.rows)]
       ELSE ReturnErr(run, temp_dirs')
    /\ UNCHANGED <<history_files, tmp_writable, clock_millis>>
    /\ UNCHANGED notExtract

\* a millisecond passes
MillisTick ==
    /\ clock_millis < MaxMillis
    /\ clock_millis' = clock_millis + 1
    /\ UNCHANGED <<history_files, tmp_writable, temp_dirs, calls>>
    /\ UNCHANGED notExtract

ExtractNext ==
    \/ \E run \in ExtractRuns : CallSync(run)
    \/ \E run \in ExtractRuns : SelectProfile(run)
    \/ \E run \in ExtractRuns : CreateDirAll(run)
    \/ \E run \in ExtractRuns : CopyHistory(run)
    \/ \E run \in ExtractRuns : ReadHistoryVisits(run)
    \/ \E run \in ExtractRuns : RemoveDirAll(run)
    \/ MillisTick

(***************************************************************************)
(* main.rs: run_service                                                    *)
(***************************************************************************)
\* last second of the service's clock
MaxServiceTime == 4

\* longest sleep the scheduler chooses
MaxSleep == 2

\* config.polling_seconds on the scale of this clock (the program fixes 300)
polling_seconds == 2

\* the branches of the select!, in the order of lines 316-337
Branches == <<"collector", "scheduler", "api", "signal">>

\* select! starts each pass at a branch chosen at random and goes round from there
PollOrders ==
    {[i \in DOMAIN Branches |-> Branches[((i - 1 + start) % Len(Branches)) + 1]] :
        start \in 0..(Len(Branches) - 1)}

\* the blocking stages of run_daily_pipeline (lines 345-369), none of which awaits
PipelineStages == <<"extract", "enrich", "store">>

\* ai::enrich_chrome_visits falls back, the other stages return their error
FallibleStages == {"extract", "store"}

Sleeping(kind, until) == [kind |-> kind, until |-> until]

NoBranch == [branch |-> "none", result |-> "none"]

NoSignal == [arrived |-> FALSE, sleep |-> "none", elapsed |-> FALSE, started |-> 0]

NoInvocations == [started |-> 0, completed |-> 0, failed |-> 0]

ServiceIdle ==
    /\ svc_clock = 0
    /\ svc_result = "running"
    /\ to_poll = <<>>
    /\ occupied = "none"
    /\ tick_at = 0
    /\ sched_sleep = Sleeping("none", 0)
    /\ pipe_stage = 0
    /\ invocations = NoInvocations
    /\ api_state = "binding"
    /\ conn_waiting = FALSE
    /\ ctrl_c = "pending"
    /\ finished = NoBranch
    /\ signal_ctx = NoSignal

\* lines 301-315: the futures are created and the select! is polled for the first time;
\* the ticker's first tick is immediate, the scheduler has not run yet
ServiceInit ==
    /\ svc_clock = 0
    /\ svc_result = "running"
    /\ to_poll \in PollOrders
    /\ occupied = "none"
    /\ tick_at = 0
    /\ sched_sleep = Sleeping("start", 0)
    /\ pipe_stage = 0
    /\ invocations = NoInvocations
    /\ api_state = "binding"
    /\ conn_waiting = FALSE
    /\ ctrl_c \in {"pending", "error"}
    /\ finished = NoBranch
    /\ signal_ctx = NoSignal

Polling(branch) ==
    /\ svc_result = "running"
    /\ occupied = "none"
    /\ to_poll # <<>>
    /\ Head(to_poll) = branch

\* the branch returned Poll::Pending
Pending == to_poll' = Tail(to_poll)

\* the handler's `?` of lines 317, 332, 335 and the Ok(()) of line 342; line 337 binds
\* the signal's result to `_`
ServiceReturns(branch, result) == IF branch = "signal" THEN "ok" ELSE result

\* a branch completed: its handler runs, the other futures are dropped
Completes(branch, result) ==
    /\ finished' = [branch |-> branch, result |-> result]
    /\ svc_result' = ServiceReturns(branch, result)
    /\ to_poll' = <<>>

\* something the select! task waits for is ready
Ready ==
    \/ svc_clock >= tick_at
    \/ svc_clock >= sched_sleep.until
    \/ conn_waiting
    \/ ctrl_c # "pending"

\* the runtime polls the woken task
WakeSelect ==
    /\ svc_result = "running"
    /\ occupied = "none"
    /\ to_poll = <<>>
    /\ Ready
    /\ to_poll' \in PollOrders
    /\ UNCHANGED <<svc_clock, svc_result, occupied, tick_at, sched_sleep, pipe_stage,
                   invocations, api_state, conn_waiting, ctrl_c, finished, signal_ctx>>
    /\ UNCHANGED notService

\* collector/mod.rs line 22: ticker.tick().await is not due
CollectorPending ==
    /\ Polling("collector")
    /\ svc_clock < tick_at
    /\ Pending
    /\ UNCHANGED <<svc_clock, svc_result, occupied, tick_at, sched_sleep, pipe_stage,
                   invocations, api_state, conn_waiting, ctrl_c, finished, signal_ctx>>
    /\ UNCHANGED notService

\* collector/mod.rs lines 22-24: the tick is due, the loop body starts
CollectorTick ==
    /\ Polling("collector")
    /\ svc_clock >= tick_at
    /\ occupied' = "collector"
    /\ UNCHANGED <<svc_clock, svc_result, to_poll, tick_at, sched_sleep, pipe_stage,
                   invocations, api_state, conn_waiting, ctrl_c, finished, signal_ctx>>
    /\ UNCHANGED notService

\* collector/mod.rs lines 24-47: the sample is stored (or the error logged) and the loop
\* awaits the next tick; MissedTickBehavior::Skip keeps the deadlines on the period
CollectorStored ==
    /\ svc_result = "running"
    /\ occupied = "collector"
    /\ occupied' = "none"
    /\ tick_at' = (svc_clock \div polling_seconds + 1) * polling_seconds
    /\ Pending
    /\ UNCHANGED <<svc_clock, svc_result, sched_sleep, pipe_stage,
                   invocations, api_state, conn_waiting, ctrl_c, finished, signal_ctx>>
    /\ UNCHANGED notService

\* scheduler/mod.rs: the sleep the scheduler is suspended in has not elapsed
SchedulerPending ==
    /\ Polling("scheduler")
    /\ svc_clock < sched_sleep.until
    /\ Pending
    /\ UNCHANGED <<svc_clock, svc_result, occupied, tick_at, sched_sleep, pipe_stage,
                   invocations, api_state, conn_waiting, ctrl_c, finished, signal_ctx>>
    /\ UNCHANGED notService

\* scheduler/mod.rs lines 25-52 and 63: at the start, after a poll sleep or after the
\* settle sleep the loop computes the delay and sleeps again, for the poll interval or
\* for the final delay
SchedulerSleepsAgain ==
    /\ Polling("scheduler")
    /\ svc_clock >= sched_sleep.until
    /\ sched_sleep.kind \in {"start", "poll", "settle"}
    /\ \E kind \in {"poll", "final"}, length \in 1..MaxSleep :
        sched_sleep' = Sleeping(kind, svc_clock + length)
    /\ Pending
    /\ UNCHANGED <<svc_clock, svc_result, occupied, tick_at, pipe_stage,
                   invocations, api_state, conn_waiting, ctrl_c, finished, signal_ctx>>
    /\ UNCHANGED notService

\* scheduler/mod.rs lines 54-57 and main.rs lines 325-330: the final sleep has elapsed,
\* task(date) is polled and run_daily_pipeline starts inside that poll
PipelineInvoked ==
    /\ Polling("scheduler")
    /\ svc_clock >= sched_sleep.until
    /\ sched_sleep.kind = "final"
    /\ occupied' = "pipeline"
    /\ pipe_stage' = 1
    /\ sched_sleep' = Sleeping("task", sched_sleep.until)
    /\ invocations' = [invocations EXCEPT !.started = @ + 1]
    /\ UNCHANGED <<svc_clock, svc_result, to_poll, tick_at, api_state, conn_waiting, ctrl_c,
                   finished, signal_ctx>>
    /\ UNCHANGED notService

\* after the pipeline (lines 59-63 of the scheduler): the settle sleep
AfterPipeline ==
    /\ occupied' = "none"
    /\ pipe_stage' = 0
    /\ sched_sleep' = Sleeping("settle", svc_clock + SETTLE_SECONDS)
    /\ Pending

\* one stage of run_daily_pipeline returns Ok
StageDone ==
    /\ svc_result = "running"
    /\ occupied = "pipeline"
    /\ IF pipe_stage < Len(PipelineStages)
       THEN /\ pipe_stage' = pipe_stage + 1
            /\ UNCHANGED <<occupied, sched_sleep, to_poll, invocations>>
       ELSE /\ AfterPipeline
            /\ invocations' = [invocations EXCEPT !.completed = @ + 1]
    /\ UNCHANGED <<svc_clock, svc_result, tick_at, api_state, conn_waiting, ctrl_c,
                   finished, signal_ctx>>
    /\ UNCHANGED notService

\* one stage of run_daily_pipeline returns its error, which the scheduler logs
StageFails ==
    /\ svc_result = "running"
    /\ occupied = "pipeline"
    /\ PipelineStages[pipe_stage] \in FallibleStages
    /\ AfterPipeline
    /\ invocations' = [invocations EXCEPT !.failed = @ + 1]
    /\ UNCHANGED <<svc_clock, svc_result, tick_at, api_state, conn_waiting, ctrl_c,
                   finished, signal_ctx>>
    /\ UNCHANGED notService

\* api/mod.rs lines 22-24: the listener is bound
ApiBinds ==
    /\ Polling("api")
    /\ api_state = "binding"
    /\ api_state' = "serving"
    /\ Pending
    /\ UNCHANGED <<svc_clock, svc_result, occupied, tick_at, sched_sleep, pipe_stage,
                   invocations, conn_waiting, ctrl_c, finished, signal_ctx>>
    /\ UNCHANGED notService

\* api/mod.rs lines 22-24 and main.rs line 335: the bind fails, run_server returns Err
ApiFails ==
    /\ Polling("api")
    /\ api_state = "binding"
    /\ Completes("api", "err")
    /\ UNCHANGED <<svc_clock, occupied, tick_at, sched_sleep, pipe_stage,
                   invocations, api_state, conn_waiting, ctrl_c, signal_ctx>>
    /\ UNCHANGED notService

\* api/mod.rs lines 28-30: axum::serve accepts the waiting connection, or has none
ApiServes ==
    /\ Polling("api")
    /\ api_state = "serving"
    /\ conn_waiting' = FALSE
    /\ Pending
    /\ UNCHANGED <<svc_clock, svc_result, occupied, tick_at, sched_sleep, pipe_stage,
                   invocations, api_state, ctrl_c, finished, signal_ctx>>
    /\ UNCHANGED notService

\* main.rs line 337: no signal yet
SignalPending ==
    /\ Polling("signal")
    /\ ctrl_c = "pending"
    /\ Pending
    /\ UNCHANGED <<svc_clock, svc_result, occupied, tick_at, sched_sleep, pipe_stage,
                   invocations, api_state, conn_waiting, ctrl_c, finished, signal_ctx>>
    /\ UNCHANGED notService

\* main.rs lines 337-342: ctrl_c() completed, with the signal or with its io::Error
SignalCompletes ==
    /\ Polling("signal")
    /\ ctrl_c # "pending"
    /\ Completes("signal", IF ctrl_c = "signal" THEN "ok" ELSE "err")
    /\ UNCHANGED <<svc_clock, occupied, tick_at, sched_sleep, pipe_stage,
                   invocations, api_state, conn_waiting, ctrl_c, signal_ctx>>
    /\ UNCHANGED notService

\* the user interrupts the service
SignalArrives ==
    /\ svc_result = "running"
    /\ ctrl_c = "pending"
    /\ ctrl_c' = "signal"
    /\ signal_ctx' = [arrived |-> TRUE, sleep |-> sched_sleep.kind,
                      elapsed |-> svc_clock >= sched_sleep.until,
                      started |-> invocations.started]
    /\ UNCHANGED <<svc_clock, svc_result, to_poll, occupied, tick_at, sched_sleep, pipe_stage,
                   invocations, api_state, conn_waiting, finished>>
    /\ UNCHANGED notService

\* a client connects to the API port
ConnectionArrives ==
    /\ svc_result = "running"
    /\ api_state = "serving"
    /\ ~conn_waiting
    /\ conn_waiting' = TRUE
    /\ UNCHANGED <<svc_clock, svc_result, to_poll, occupied, tick_at, sched_sleep, pipe_stage,
                   invocations, api_state, ctrl_c, finished, signal_ctx>>
    /\ UNCHANGED notService

\* a second passes: while the select! task is parked with nothing ready, or while it is
\* inside blocking code
ServiceTick ==
    /\ svc_result = "running"
    /\ svc_clock < MaxServiceTime
    /\ \/ occupied # "none"
       \/ (to_poll = <<>> /\ ~Ready)
    /\ svc_clock' = svc_clock + 1
    /\ UNCHANGED <<svc_result, to_poll, occupied, tick_at, sched_sleep, pipe_stage,
                   invocations, api_state, conn_waiting, ctrl_c, finished, signal_ctx>>
    /\ UNCHANGED notService

ServiceNext ==
    \/ WakeSelect
    \/ CollectorPending
    \/ CollectorTick
    \/ CollectorStored
    \/ SchedulerPending
    \/ SchedulerSleepsAgain
    \/ PipelineInvoked
    \/ StageDone
    \/ StageFails
    \/ ApiBinds
    \/ ApiFails
    \/ ApiServes
    \/ SignalPending
    \/ SignalCompletes
    \/ SignalArrives
    \/ ConnectionArrives
    \/ ServiceTick

(***************************************************************************)
(* analyzer/: the pure functions, applied to one input at a time           *)
(***************************************************************************)
\* loads of the rules file in one behaviour
MaxLoads == 2

\* rows of each table handed to build_daily_report
MaxRows == 2

\* category labels as they can stand in categories.json
CategoryLabels ==
    {CatDevelopment, <<"d", "e", "v">>, KoDevelopment, CatCommunication, KoCommunication, CatResearch,
     KoResearch, CatEntertainment, KoEntertainment, CatSns, CatShopping, KoShopping,
     CatOther, KoOther, <<>>, <<"g", "a", "m", "e", "s">>, <<"d", "e", "v", "s">>, <<"d", "e", " ", "v">>}

\* the label with its first letter in upper case
Shouted(label) ==
    IF label # <<>> /\ \E i \in 1..Len(LowerLetters) : LowerLetters[i] = Head(label)
    THEN <<UpperLetters[CHOOSE i \in 1..Len(LowerLetters) : LowerLetters[i] = Head(label)]>>
         \o Tail(label)
    ELSE label

\* the inputs of normalize_category: the labels, padded and in mixed case
RawCategories ==
    UNION {{label, Shouted(label), <<" ">> \o label, label \o <<"\t">>,
            <<" ">> \o Shouted(label) \o <<" ">>} : label \in CategoryLabels}

\* categories.json files: rules that overlap, one rule, a rule that is the tail of a
\* label, and a rule written with www., blanks and capitals
RuleFiles ==
    {[apps |-> {}, domains |-> {[key |-> <<"g", "o", "o", "g", "l", "e", ".", "c", "o", "m">>, value |-> <<"r", "e", "s", "e", "a", "r", "c", "h">>],
                                [key |-> <<"m", "a", "i", "l", ".", "g", "o", "o", "g", "l", "e", ".", "c", "o", "m">>, value |-> <<"c", "o", "m", "m", "u", "n", "i", "c", "a", "t", "i", "o", "n">>]}],
     [apps |-> {}, domains |-> {[key |-> <<"g", "i", "t", "h", "u", "b", ".", "c", "o", "m">>, value |-> <<"d", "e", "v", "e", "l", "o", "p", "m", "e", "n", "t">>]}],
     [apps |-> {}, domains |-> {[key |-> <<"h", "u", "b", ".", "c", "o", "m">>, value |-> <<"s", "h", "o", "p", "p", "i", "n", "g">>]}],
     [apps |-> {}, domains |-> {[key |-> <<" ", "w", "w", "w", ".", "G", "i", "t", "H", "u", "b", ".", "c", "o", "m", " ">>, value |-> <<"D", "e", "v">>],
                                [key |-> <<"x", ".", "i", "o">>, value |-> <<"s", "n", "s">>]}]}

\* the domains handed to categorize_domain
DomainInputs ==
    {<<"m", "a", "i", "l", ".", "g", "o", "o", "g", "l", "e", ".", "c", "o", "m">>, <<"g", "o", "o", "g", "l", "e", ".", "c", "o", "m">>, <<"g", "i", "t", "h", "u", "b", ".", "c", "o", "m">>, <<"d", "o", "c", "s", ".", "g", "i", "t", "h", "u", "b", ".", "c", "o", "m">>,
     <<" ", "G", "i", "t", "H", "u", "b", ".", "C", "O", "M", " ">>, <<"h", "u", "b", ".", "c", "o", "m">>, <<"g", "i", "t", "h", "u", "b", ".", "c", "o", "m", ".", "e", "v", "i", "l", ".", "n", "e", "t">>, <<"a", "x", ".", "i", "o">>}

\* the rows of table activities handed to build_daily_report
ActivityRows ==
    {[app_name |-> <<"c", "o", "d", "e">>, category |-> CatDevelopment, duration_sec |-> 90],
     [app_name |-> <<"s", "a", "f", "a", "r", "i">>, category |-> <<"g", "a", "m", "e", "s">>, duration_sec |-> 30],
     [app_name |-> <<"c", "o", "d", "e">>, category |-> <<"D", "e", "v", "e", "l", "o", "p", "m", "e", "n", "t">>, duration_sec |-> -5],
     [app_name |-> <<"m", "a", "i", "l">>, category |-> CatCommunication, duration_sec |-> 3600]}

\* the rows of table chrome_visits handed to build_daily_report
VisitRows ==
    {[domain |-> <<"d", "o", "c", "s", ".", "i", "o">>, category |-> CatResearch, duration_sec |-> 59],
     [domain |-> <<"y", "o", "u", "t", "u", "b", "e", ".", "c", "o", "m">>, category |-> CatEntertainment, duration_sec |-> 5400],
     [domain |-> <<"d", "o", "c", "s", ".", "i", "o">>, category |-> <<"n", "e", "w", "s">>, duration_sec |-> 120],
     [domain |-> <<"x", ".", "i", "o">>, category |-> <<>>, duration_sec |-> 0]}

\* the lists of at most MaxRows rows
RowLists(rows) == UNION {[1..n -> rows] : n \in 0..MaxRows}

\* a rule set as one load leaves it: the entries of the hash map in its iteration order
LoadedRules(file) ==
    UNION {Orderings({[key |-> key, value |-> loaded.domains[key]] : key \in DOMAIN loaded.domains}) :
              loaded \in normalized(file)}

\* categorize_domain on one loaded rule set: iter().find() takes the first match
CategorizeInOrder(order, domain) ==
    LET normalized_domain == to_lowercase(trim(domain))
        hits == {i \in DOMAIN order : domain_matches(normalized_domain, order[i].key)}
    IN  IF hits = {} THEN CatOther
        ELSE normalize_category(order[CHOOSE i \in hits : \A j \in hits : i <= j].value)

\* the names of the maps handed to top_n_metrics
MetricNames == {<<"a", ".", "c", "o", "m">>, <<"b", ".", "c", "o", "m">>, <<"a", ".", "c", "o">>, <<"B", ".", "c", "o", "m">>, <<"a", "b">>}

\* the totals of the maps handed to top_n_metrics
MetricSeconds == {-5, 120, 300}

\* eleven names, one more than the longest list kept
ManyNames ==
    {<<"d", "0">>, <<"d", "1">>, <<"d", "2">>, <<"d", "3">>, <<"d", "4">>, <<"d", "5">>, <<"d", "6">>, <<"d", "7">>, <<"d", "8">>, <<"d", "9">>, <<"d", "a">>}

\* the names of ManyNames whose totals vary
VariedNames == {<<"d", "0">>, <<"d", "5">>, <<"d", "a">>}

\* app_seconds and domain_seconds as build_daily_report hands them over
MetricSources ==
    UNION {[names -> MetricSeconds] : names \in SUBSET MetricNames}
      \cup {[name \in ManyNames |-> IF name \in VariedNames THEN varied[name] ELSE 120] :
              varied \in [VariedNames -> MetricSeconds]}

Metric(name, seconds) == [name |-> name, seconds |-> seconds, minutes |-> sec_to_min(seconds)]

\* the lists of top domains handed to detect_anomalies
TopDomainLists ==
    {<<>>,
     <<Metric(<<"y", "o", "u", "t", "u", "b", "e", ".", "c", "o", "m">>, 3600)>>,
     <<Metric(<<"y", "o", "u", "t", "u", "b", "e", ".", "c", "o", "m">>, 3599)>>,
     <<Metric(<<"d", "o", "c", "s", ".", "i", "o">>, 7200)>>,
     <<Metric(<<"d", "o", "c", "s", ".", "i", "o">>, 7200), Metric(<<"m", ".", "y", "o", "u", "t", "u", "b", "e", ".", "c", "o", "m">>, 3600)>>,
     <<Metric(<<"m", "u", "s", "i", "c", ".", "y", "o", "u", "t", "u", "b", "e", ".", "c", "o", "m">>, 3700), Metric(<<"y", "o", "u", "t", "u", "b", "e", ".", "c", "o", "m">>, 3599)>>}

\* the totals of category entertainment handed to detect_anomalies
EntertainmentTotals == {0, 5399, 5400}

\* the totals of the activity rows and of the browsing rows handed to detect_anomalies
ActivityTotals == {0, 3599, 3600}
BrowsingTotals == {0, 3599, 3600, 3601}

CategoryTotals(entertainment) ==
    [category \in CanonicalSet |-> IF category = CatEntertainment THEN entertainment ELSE 0]

NotLoaded == [rules |-> <<>>, fresh |-> FALSE, loads |-> 0, category |-> <<>>]

\* the function and the input of the behaviour are chosen, nothing is applied yet
AnalyzerInit ==
    /\ fn_value = <<>>
    /\ \/ /\ fn_name = "normalize_category"
          /\ fn_args \in {<<raw>> : raw \in RawCategories}
       \/ /\ fn_name = "categorize_domain"
          /\ fn_args \in RuleFiles \X DomainInputs
       \/ /\ fn_name = "build_daily_report"
          /\ fn_args \in RowLists(ActivityRows) \X RowLists(VisitRows)
       \/ /\ fn_name = "top_n_metrics"
          /\ fn_args \in MetricSources \X {TOP_APPS, TOP_DOMAINS}
       \/ /\ fn_name = "detect_anomalies"
          /\ fn_args \in {CategoryTotals(entertainment) : entertainment \in EntertainmentTotals}
                            \X TopDomainLists \X ActivityTotals \X BrowsingTotals

CallNormalizeCategory ==
    /\ fn_name = "normalize_category"
    /\ fn_value = <<>>
    /\ fn_value' = <<normalize_category(fn_args[1])>>
    /\ UNCHANGED <<fn_name, fn_args>>
    /\ UNCHANGED notFn

\* load_category_rules (main.rs lines 382-389), which every pipeline run does anew
LoadCategoryRules ==
    /\ fn_name = "categorize_domain"
    /\ LET before == IF fn_value = <<>> THEN NotLoaded ELSE fn_value[1]
       IN  /\ before.loads < MaxLoads
           /\ \E order \in LoadedRules(fn_args[1]) :
                fn_value' = <<[rules |-> order, fresh |-> TRUE, loads |-> before.loads + 1,
                               category |-> before.category]>>
    /\ UNCHANGED <<fn_name, fn_args>>
    /\ UNCHANGED notFn

CallCategorizeDomain ==
    /\ fn_name = "categorize_domain"
    /\ fn_value # <<>>
    /\ fn_value[1].fresh
    /\ fn_value' = <<[fn_value[1] EXCEPT !.fresh = FALSE,
                                         !.category = CategorizeInOrder(fn_value[1].rules, fn_args[2])]>>
    /\ UNCHANGED <<fn_name, fn_args>>
    /\ UNCHANGED notFn

CallBuildDailyReport ==
    /\ fn_name = "build_daily_report"
    /\ fn_value = <<>>
    /\ fn_value' = <<build_daily_report(0, fn_args[1], fn_args[2], 0)>>
    /\ UNCHANGED <<fn_name, fn_args>>
    /\ UNCHANGED notFn

\* top_n_metrics as build_daily_report calls it (report.rs lines 123-124)
CallTopNMetrics ==
    /\ fn_name = "top_n_metrics"
    /\ fn_value = <<>>
    /\ fn_value' = <<top_n_metrics(fn_args[1], fn_args[2])>>
    /\ UNCHANGED <<fn_name, fn_args>>
    /\ UNCHANGED notFn

CallDetectAnomalies ==
    /\ fn_name = "detect_anomalies"
    /\ fn_value = <<>>
    /\ fn_value' = <<detect_anomalies(fn_args[1], fn_args[2], fn_args[3], fn_args[4])>>
    /\ UNCHANGED <<fn_name, fn_args>>
    /\ UNCHANGED notFn

AnalyzerNext ==
    \/ CallNormalizeCategory
    \/ LoadCategoryRules
    \/ CallCategorizeDomain
    \/ CallBuildDailyReport
    \/ CallTopNMetrics
    \/ CallDetectAnomalies

(***************************************************************************)
(* The functions that are claimed about one call at a time: their inputs   *)
(* and their calls.  An optional string is <<>> (None) or <<string>>.      *)
(***************************************************************************)
\* a key that passes the filter
ResolveApiKeyUnfiltered(env_var, ai_api_key) ==
    IF env_var # <<>> THEN env_var ELSE ai_api_key

\* ai/mod.rs lines 154-164: the environment variable, else the key of the
\* configuration, each only when it is not blank
resolve_api_key(env_var, ai_api_key) ==
    LET NonBlank(optional) ==
            IF optional # <<>> /\ trim(optional[1]) # <<>> THEN optional ELSE <<>>
    IN  IF NonBlank(env_var) # <<>> THEN NonBlank(env_var) ELSE NonBlank(ai_api_key)

has_api_key(env_var, ai_api_key) == resolve_api_key(env_var, ai_api_key) # <<>>

\* OPENTRACKER_AI_API_KEY: not set, blank, set
EnvKeys == {<<>>, <<<<" ">>>>, <<<<"k", "1">>>>}

\* config.ai_api_key: None, empty, blank, set
ConfigKeys == {<<>>, <<<<>>>>, <<<<" ", "\t">>>>, <<<<"k", "2">>>>}

Visit(domain, category, duration_sec) ==
    [domain |-> domain, category |-> category, duration_sec |-> duration_sec]

\* the visits handed to enrich_chrome_visits, as sync_chrome_visits_for_date leaves them
EnrichVisits ==
    {<<>>,
     <<Visit(<<"d", "o", "c", "s", ".", "i", "o">>, CatResearch, 100)>>,
     <<Visit(<<"d", "o", "c", "s", ".", "i", "o">>, CatDevelopment, 100), Visit(<<"x", ".", "i", "o">>, CatOther, 20)>>,
     <<Visit(<<"e", "l", "s", "e", "w", "h", "e", "r", "e", ".", "n", "e", "t">>, CatOther, 5), Visit(<<"x", ".", "i", "o">>, CatSns, 300),
       Visit(<<"d", "o", "c", "s", ".", "i", "o">>, CatResearch, 1)>>}

Item(domain, category) == [domain |-> domain, category |-> category]

OkReply(items, insights) == [kind |-> "ok", domain_categories |-> items, insights |-> insights]

\* the replies of the provider: failures, and payloads that name no domain,
\* a domain twice, a domain in capitals with blanks, labels that are not canonical
EnrichReplies ==
    Replies
    \cup {OkReply(<<>>, <<>>),
          OkReply(<<Item(<<"d", "o", "c", "s", ".", "i", "o">>, <<"D", "e", "v">>), Item(<<"D", "O", "C", "S", ".", "i", "o", " ">>, <<"s", "h", "o", "p", "p", "i", "n", "g">>)>>, <<<<"f", "o", "c", "u", "s">>>>),
          OkReply(<<Item(<<"x", ".", "i", "o">>, <<"g", "a", "m", "e", "s">>), Item(<<"o", "t", "h", "e", "r", ".", "o", "r", "g">>, <<"s", "n", "s">>)>>, <<>>),
          OkReply(<<Item(<<"e", "l", "s", "e", "w", "h", "e", "r", "e", ".", "n", "e", "t">>, <<>>), Item(<<" ", "X", ".", "I", "O">>, <<" ", "S", "N", "S", " ">>)>>, <<>>)}

\* what a call of enrich_chrome_visits returns and how often it called the provider
Enriched(enabled, env_var, ai_api_key, visited, answer) ==
    LET cfg == [ai_enabled |-> enabled, has_api_key |-> has_api_key(env_var, ai_api_key)]
    IN  [outcome |-> enrich_chrome_visits(cfg, visited, answer),
         remote_calls |-> IF MakesRemoteCall(cfg, visited) THEN 1 ELSE 0]

MICROS_PER_SECOND == 1000000

\* the division of i64: the quotient is rounded toward zero
TruncDiv(a, b) == IF a >= 0 THEN a \div b ELSE -((-a) \div b)

\* a record of no time is kept
KeepsRecordOrZero(seconds) == seconds >= 0

\* chrome.rs line 120: the filter of read_history_visits
KeepsRecord(seconds) == seconds > 0

\* chrome.rs lines 127-132 on the host of the parsed URL (<<>>: the URL does
\* not parse or has no host)
extract_domain(host) ==
    IF host = <<>> THEN <<>> ELSE <<to_lowercase(trim_start_matches(host[1], Www))>>

\* chrome.rs lines 113-121 on the rows of the query
RECURSIVE read_history_visits(_)
read_history_visits(rows) ==
    IF rows = <<>> THEN <<>>
    ELSE LET extracted == extract_domain(Head(rows).host)
             seconds == Max0(TruncDiv(Head(rows).visit_duration, MICROS_PER_SECOND))
         IN  (IF extracted # <<>> /\ KeepsRecord(seconds)
              THEN <<Visited(extracted[1], seconds)>>
              ELSE <<>>)
             \o read_history_visits(Tail(rows))

RawRow(host, visit_duration) == [host |-> host, visit_duration |-> visit_duration]

\* rows of the query on a History file: the host of urls.url and visits.visit_duration
RawRows ==
    {RawRow(<<<<"w", "w", "w", ".", "a", ".", "i", "o">>>>, 1999999),
     RawRow(<<<<"a", ".", "i", "o">>>>, 1000000),
     RawRow(<<<<"a", ".", "i", "o">>>>, 999999),
     RawRow(<<<<"b", ".", "i", "o">>>>, -1500000),
     RawRow(<<<<"b", ".", "i", "o">>>>, 0),
     RawRow(<<>>, 5000000),
     RawRow(<<<<"w", "w", "w", ".", "w", "w", "w", ".", "b", ".", "i", "o">>>>, 3000000)}

\* lines 17-30 for two profiles whose History files are read
ExtractedEntries(first, second) ==
    FoldEntries(<<read_history_visits(first), read_history_visits(second)>>)

\* config.rs lines 271-274: NaiveTime::parse_from_str(value, "%H:%M") of
\* crate chrono.  %H and %M skip white space and then take one or two digits,
\* the colon is taken as written, nothing may follow the minute, and the
\* hour is below 24 and the minute below 60.
parse_hhmm(value) ==
    LET DigitsAt(s) ==
            IF s # <<>> /\ IsDigit(s[1])
            THEN IF Len(s) >= 2 /\ IsDigit(s[2]) THEN 2 ELSE 1
            ELSE 0
        hour_text == trim_start(value)
        hour_len == DigitsAt(hour_text)
        after_hour == SubSeq(hour_text, hour_len + 1, Len(hour_text))
        minute_text == trim_start(Tail(after_hour))
        minute_len == DigitsAt(minute_text)
    IN  IF hour_len = 0 THEN TimeErr
        ELSE IF after_hour = <<>> \/ Head(after_hour) # ":" THEN TimeErr
        ELSE IF minute_len = 0 \/ minute_len # Len(minute_text) THEN TimeErr
        ELSE LET hour == DigitsValue(SubSeq(hour_text, 1, hour_len), 0)
                 minute == DigitsValue(minute_text, 0)
             IN  IF hour < HOURS_PER_DAY /\ minute < MINUTES_PER_HOUR
                 THEN [ok |-> TRUE, hour |-> hour, minute |-> minute]
                 ELSE TimeErr

CronErr == [ok |-> FALSE, cron |-> <<>>]

\* scheduler/mod.rs lines 12-15
cron_from_report_time(report_time) ==
    LET time == parse_hhmm(report_time)
    IN  IF ~time.ok THEN CronErr
        ELSE [ok |-> TRUE, cron |-> FormatCron(time.minute, time.hour)]

\* a piece of text with what it stands for: its number (-1: none), the number
\* as plainly written, and whether it is two digits, or no number at all
Token(text, kind, number, plain) ==
    [text |-> text, kind |-> kind, number |-> number, plain |-> plain]

\* the first two fields of the cron expressions
NumberTokens ==
    {Token(<<"0">>, "digits", 0, <<"0">>),
     Token(<<"5", "9">>, "digits", 59, <<"5", "9">>),
     Token(<<"6", "0">>, "digits", 60, <<"6", "0">>),
     Token(<<"2", "3">>, "digits", 23, <<"2", "3">>),
     Token(<<"2", "4">>, "digits", 24, <<"2", "4">>),
     Token(<<"0", "5">>, "digits", 5, <<"5">>),
     Token(<<"+", "7">>, "digits", 7, <<"7">>),
     Token(<<"4", "2", "9", "4", "9", "6", "7", "2", "9", "6">>, "malformed", -1, <<>>),
     Token(<<"*">>, "malformed", -1, <<>>),
     Token(<<"*", "/", "5">>, "malformed", -1, <<>>),
     Token(<<"-", "1">>, "malformed", -1, <<>>),
     Token(<<"1", "a">>, "malformed", -1, <<>>)}

Star == Token(<<"*">>, "malformed", -1, <<>>)

\* the last three fields of the cron expressions
RestFields ==
    {<<Star, Star, Star>>,
     <<Token(<<"1">>, "digits", 1, <<"1">>), Star, Star>>,
     <<Star, Token(<<"*", "/", "2">>, "malformed", -1, <<>>), Star>>,
     <<Star, Star, Token(<<"*", "*">>, "malformed", -1, <<>>)>>}

\* the fields of the cron expressions: five, four, six, none
CronFields ==
    {<<first, second>> \o rest : first \in NumberTokens, second \in NumberTokens, rest \in RestFields}
    \cup {<<>>,
          <<Token(<<"3", "0">>, "digits", 30, <<"3", "0">>), Token(<<"2", "3">>, "digits", 23, <<"2", "3">>), Star, Star>>,
          <<Token(<<"3", "0">>, "digits", 30, <<"3", "0">>), Token(<<"2", "3">>, "digits", 23, <<"2", "3">>),
            Star, Star, Star, Star>>}

\* how the fields are set apart: by one blank, or by tabs and blanks with
\* white space around the expression
CronStyles == {"blank", "tabs"}

RECURSIVE JoinFields(_, _)
JoinFields(fields, gap) ==
    IF fields = <<>> THEN <<>>
    ELSE IF Len(fields) = 1 THEN fields[1].text
    ELSE fields[1].text \o gap \o JoinFields(Tail(fields), gap)

CronText(fields, style) ==
    IF style = "blank" THEN JoinFields(fields, <<" ">>)
    ELSE <<" ">> \o JoinFields(fields, <<"\t", " ">>) \o <<"\n">>

\* the hours of the report times
HourTokens ==
    {Token(<<"0", "0">>, "two_digits", 0, <<"0">>),
     Token(<<"0", "9">>, "two_digits", 9, <<"9">>),
     Token(<<"2", "3">>, "two_digits", 23, <<"2", "3">>),
     Token(<<"2", "4">>, "two_digits", 24, <<"2", "4">>),
     Token(<<"9">>, "short", 9, <<"9">>),
     Token(<<" ", "7">>, "short", 7, <<"7">>),
     Token(<<"0", "0", "7">>, "malformed", -1, <<>>),
     Token(<<"a", "b">>, "malformed", -1, <<>>),
     Token(<<"-", "1">>, "malformed", -1, <<>>),
     Token(<<>>, "malformed", -1, <<>>)}

\* the minutes of the report times
MinuteTokens ==
    {Token(<<"0", "0">>, "two_digits", 0, <<"0">>),
     Token(<<"0", "5">>, "two_digits", 5, <<"5">>),
     Token(<<"3", "0">>, "two_digits", 30, <<"3", "0">>),
     Token(<<"5", "9">>, "two_digits", 59, <<"5", "9">>),
     Token(<<"6", "0">>, "two_digits", 60, <<"6", "0">>),
     Token(<<"5">>, "short", 5, <<"5">>),
     Token(<<"3", "0", "0">>, "malformed", -1, <<>>),
     Token(<<"3", "x">>, "malformed", -1, <<>>),
     Token(<<"3", "0", ":", "0", "0">>, "malformed", -1, <<>>),
     Token(<<>>, "malformed", -1, <<>>)}

\* what stands between hour and minute
TimeGaps == {<<":">>, <<"-">>, <<>>, <<":", ":">>, <<".">>}

\* the function and the input of the behaviour are chosen, nothing is applied yet
FunctionInit ==
    /\ fn_value = <<>>
    /\ \/ /\ fn_name = "enrich_chrome_visits"
          /\ fn_args \in BOOLEAN \X EnvKeys \X ConfigKeys \X EnrichVisits \X EnrichReplies
       \/ /\ fn_name = "sync_chrome_visits_for_date"
          /\ fn_args \in RowLists(RawRows) \X RowLists(RawRows)
       \/ /\ fn_name = "parse_daily_cron_time"
          /\ fn_args \in CronFields \X CronStyles
       \/ /\ fn_name = "cron_from_report_time"
          /\ fn_args \in HourTokens \X TimeGaps \X MinuteTokens

CallEnrichChromeVisits ==
    /\ fn_name = "enrich_chrome_visits"
    /\ fn_value = <<>>
    /\ fn_value' = <<Enriched(fn_args[1], fn_args[2], fn_args[3], fn_args[4], fn_args[5])>>
    /\ UNCHANGED <<fn_name, fn_args>>
    /\ UNCHANGED notFn

\* the entries of sync_chrome_visits_for_date from the rows of the two profiles
CallExtract ==
    /\ fn_name = "sync_chrome_visits_for_date"
    /\ fn_value = <<>>
    /\ fn_value' = <<ExtractedEntries(fn_args[1], fn_args[2])>>
    /\ UNCHANGED <<fn_name, fn_args>>
    /\ UNCHANGED notFn

CallParseDailyCronTime ==
    /\ fn_name = "parse_daily_cron_time"
    /\ fn_value = <<>>
    /\ fn_value' = <<parse_daily_cron_time(CronText(fn_args[1], fn_args[2]))>>
    /\ UNCHANGED <<fn_name, fn_args>>
    /\ UNCHANGED notFn

CallCronFromReportTime ==
    /\ fn_name = "cron_from_report_time"
    /\ fn_value = <<>>
    /\ fn_value' = <<cron_from_report_time(fn_args[1].text \o fn_args[2] \o fn_args[3].text)>>
    /\ UNCHANGED <<fn_name, fn_args>>
    /\ UNCHANGED notFn

FunctionNext ==
    \/ CallEnrichChromeVisits
    \/ CallExtract
    \/ CallParseDailyCronTime
    \/ CallCronFromReportTime

\* no pure function has been applied
FnIdle ==
    /\ fn_name = "none"
    /\ fn_args = <<>>
    /\ fn_value = <<>>

\* everything outside the scheduler, the delay and the pipeline at rest
RestIdle ==
    /\ ExtractIdle
    /\ ServiceIdle
    /\ FnIdle

(***************************************************************************)
(* Specifications                                                          *)
(***************************************************************************)
\* the scheduler alone: nothing else of the program moves
SchedSpecInit ==
    /\ SchedInit
    /\ DelayIdle
    /\ PipeIdle
    /\ RestIdle

SchedSpec == SchedSpecInit /\ [][SchedNext]_vars

\* seconds_until_next_run alone
DelaySpecInit ==
    /\ DelayInit
    /\ SchedIdle
    /\ PipeIdle
    /\ RestIdle

DelayNext == CallSecondsUntilNextRun

DelaySpec == DelaySpecInit /\ [][DelayNext]_vars

\* invocations of the pipeline, one after the other
PipeSpecInit ==
    /\ PipeInit
    /\ SchedIdle
    /\ DelayIdle
    /\ RestIdle

PipeSpec == PipeSpecInit /\ [][PipeNext]_vars

\* the extractor, with calls that can overlap
ExtractSpecInit ==
    /\ ExtractInit
    /\ SchedIdle
    /\ DelayIdle
    /\ PipeIdle
    /\ ServiceIdle
    /\ FnIdle

ExtractSpec == ExtractSpecInit /\ [][ExtractNext]_vars

\* the service: the select! of run_service and what wakes it
ServiceSpecInit ==
    /\ ServiceInit
    /\ SchedIdle
    /\ DelayIdle
    /\ PipeIdle
    /\ ExtractIdle
    /\ FnIdle

ServiceSpec == ServiceSpecInit /\ [][ServiceNext]_vars

\* the pure functions of analyzer/
AnalyzerSpecInit ==
    /\ AnalyzerInit
    /\ SchedIdle
    /\ DelayIdle
    /\ PipeIdle
    /\ ExtractIdle
    /\ ServiceIdle

AnalyzerSpec == AnalyzerSpecInit /\ [][AnalyzerNext]_vars

\* the functions claimed about one call at a time
FunctionSpecInit ==
    /\ FunctionInit
    /\ SchedIdle
    /\ DelayIdle
    /\ PipeIdle
    /\ ExtractIdle
    /\ ServiceIdle

FunctionSpec == FunctionSpecInit /\ [][FunctionNext]_vars

(***************************************************************************)
(* Properties of the scheduler loop                                        *)
(***************************************************************************)
\* a step of the loop that invokes the task
FireStep == pc = "sleep_delay" /\ pc' = "task"

\* the time of day of an instant, relative to a target of the same day
FiresAt(t, target) == TimeOfDay(DayLen, t) - target \in 0..MaxJitter

\* C1: the task is invoked at most once per local calendar date, whatever
\* the schedule source returns and however long the task runs.
C1_AtMostOncePerDate == \A d \in Dates : runLog[d].count <= 1

\* C2: while the schedule source keeps returning a valid time, every local
\* calendar day that has gone by has had its invocation of the task (no day
\* is skipped), with or without edits of the schedule; the scheduler starts
\* at midnight of day 0, before any configured time.  Only an edit that
\* sets a time of day which is already over is not held against the loop.
C2_NoDaySkipped ==
    \A d \in Dates :
        (~badFetch /\ ~editedToPast /\ now >= (d + 1) * DayLen) => runLog[d].count >= 1

\* C3: a task error does not end the loop: the loop never returns, after
\* the task (failed or not) it sleeps the settle second and computes the
\* delay again, every final sleep that ends invokes the task, and when no
\* poll sleep overshoots its trigger and the schedule stays as it is, the
\* day after a failed run has its invocation.
C3_TaskFailureDoesNotStopLoop ==
    /\ [](pc # "returned")
    /\ [][pc = "task" /\ pc' # "task"
            => pc' = "sleep_settle" /\ wakeAt' = now' + SETTLE_SECONDS]_schedVars
    /\ [][pc = "sleep_settle" /\ pc' # "sleep_settle" => pc' = "compute"]_schedVars
    /\ [][pc = "sleep_delay" /\ pc' # "sleep_delay"
            => pc' = "task" /\ runLog'[date'].count >= 1]_schedVars
    /\ [](\A d \in Dates :
            (/\ d + 1 \in Dates
             /\ runLog[d].failed
             /\ edits = 0 /\ ~badFetch /\ ~missed
             /\ now >= (d + 2) * DayLen)
            => runLog[d + 1].count >= 1)

\* C3 witness: the run of day 0 failed and the task was invoked on day 1
C3_Witness ==
    /\ runLog[0].failed
    /\ runLog[1].count >= 1
    /\ edits = 0 /\ ~badFetch /\ ~missed
    /\ now >= 2 * DayLen

\* C8: a fetch that fails, or returns an expression that is no daily cron
\* expression, invokes nothing and ends nothing: the loop sleeps the poll
\* interval and fetches again.
C8_BadScheduleRetries ==
    /\ [](pc # "returned")
    /\ [][(pc = "compute" /\ pc' # "compute"
              /\ (~source.ok \/ ~parse_daily_cron_time(source.value).ok))
            => /\ pc' = "sleep_retry"
               /\ wakeAt' = now + RESCHEDULE_POLL_SECONDS
               /\ now' = now
               /\ runLog' = runLog]_schedVars
    /\ [][pc = "sleep_retry" /\ pc' # "sleep_retry"
            => /\ pc' = "compute"
               /\ now' >= wakeAt
               /\ runLog' = runLog]_schedVars

\* C8 witness: the source has returned the non-daily expression at every
\* fetch, the loop is in its third retry sleep or a later one and has not
\* invoked the task
C8_Witness ==
    /\ pc = "sleep_retry"
    /\ badFetch
    /\ cron_expr = CronEveryFive
    /\ edits = 0
    /\ now >= 2 * RESCHEDULE_POLL_SECONDS
    /\ \A d \in Dates : runLog[d].count = 0

\* C9 as stated: a delay above the poll interval is slept 30 seconds at a
\* time with a new fetch after each, and after the schedule was changed to
\* a time more than one poll interval ahead the next invocation happens at
\* the new time.
C9_EditAlwaysMovesNextRun ==
    /\ [][(pc = "compute" /\ pc' # "compute" /\ source.ok
              /\ SchedDelay(now, source.value).ok
              /\ SchedDelay(now, source.value).secs > RESCHEDULE_POLL_SECONDS)
            => pc' = "sleep_poll" /\ wakeAt' = now + RESCHEDULE_POLL_SECONDS]_schedVars
    /\ [][pc = "sleep_poll" /\ pc' # "sleep_poll" => pc' = "compute"]_schedVars
    /\ [][(FireStep /\ pending # "none")
            => FiresAt(now', TargetOf(source.value))]_schedVars

\* C9 amended: as above, but the next invocation happens at the new time
\* only when the edit was not made during a final sleep of at most 30
\* seconds before the old trigger; an edit made during that sleep leaves
\* the old trigger to fire once, at the time fetched before the edit.
C9_EditMovesNextRunUnlessInFinalSleep ==
    /\ [][(pc = "compute" /\ pc' # "compute" /\ source.ok
              /\ SchedDelay(now, source.value).ok
              /\ SchedDelay(now, source.value).secs > RESCHEDULE_POLL_SECONDS)
            => pc' = "sleep_poll" /\ wakeAt' = now + RESCHEDULE_POLL_SECONDS]_schedVars
    /\ [][pc = "sleep_poll" /\ pc' # "sleep_poll" => pc' = "compute"]_schedVars
    /\ [][(FireStep /\ pending = "old_trigger_far")
            => FiresAt(now', TargetOf(source.value))]_schedVars
    /\ [][(FireStep /\ pending = "old_trigger_near")
            => FiresAt(now', TargetOf(cron_expr))]_schedVars

\* C9 witness: the schedule was edited while the old trigger was far, the
\* loop has fetched the new value and is in its final sleep towards it
C9_Witness ==
    /\ pending = "old_trigger_far"
    /\ pc = "sleep_delay"
    /\ cron_expr = source.value
    /\ TimeOfDay(DayLen, wakeAt) = TargetOf(source.value)

(***************************************************************************)
(* Properties of seconds_until_next_run                                    *)
(***************************************************************************)
\* C10: without a clock transition, for every instant and every valid
\* target the result is the time to today's target when that is strictly
\* later than now and the time to tomorrow's target otherwise; it is
\* strictly positive and at most 24 hours; 10:00 with target 23:30 gives
\* 13h30m and 23:35 with target 23:30 gives 23h55m.
C10_DelayToNextTarget ==
    (/\ delay_out # NotCalled
     /\ parse_daily_cron_time(delay_in.cron_expr).ok
     /\ delay_in.today_local = "Single"
     /\ delay_in.tomorrow_local = "Single")
    => LET tod    == delay_in.now % REAL_DAY_SECONDS
           target == TargetOf(delay_in.cron_expr)
       IN  /\ delay_out.ok
           /\ target > tod => delay_out.secs = target - tod
           /\ target <= tod => delay_out.secs = REAL_DAY_SECONDS - (tod - target)
           /\ delay_out.secs > 0
           /\ delay_out.secs <= REAL_DAY_SECONDS
           /\ (tod = HMS(10, 0, 0) /\ delay_in.cron_expr = FormatCron(30, 23))
                => delay_out.secs = HMS(13, 30, 0)
           /\ (tod = HMS(23, 35, 0) /\ delay_in.cron_expr = FormatCron(30, 23))
                => delay_out.secs = HMS(23, 55, 0)

\* C10 witness: at the very second of the target the delay is a whole day
C10_Witness ==
    /\ delay_out.ok
    /\ delay_in.now % REAL_DAY_SECONDS = HMS(23, 30, 0)
    /\ delay_in.cron_expr = FormatCron(30, 23)
    /\ delay_in.today_local = "Single"
    /\ delay_out.secs = REAL_DAY_SECONDS

(***************************************************************************)
(* Properties of the daily pipeline                                        *)
(***************************************************************************)
Ran(step) == \E i \in 1..Len(stagesRun) : stagesRun[i] = step

TimesRun(step) == Cardinality({i \in 1..Len(stagesRun) : stagesRun[i] = step})

Occurrences(row, rows) == Cardinality({i \in 1..Len(rows) : rows[i] = row})

\* the same rows, each as often, in whatever order
SameRows(a, b) ==
    /\ Len(a) = Len(b)
    /\ \A i \in 1..Len(a) : Occurrences(a[i], a) = Occurrences(a[i], b)

\* the report that the rows categorized by the rules alone give
RuleBasedReport == build_daily_report(pdate, activities_for_date(pdate), visits, utc)

\* C4: when the remote reclassification call fails in any way (network
\* error, non-success status, empty content, unparsable payload, worker
\* panic), the enrichment step does not fail the run: the run goes on to
\* open the store, the visits stored and aggregated are exactly the
\* rule-categorized visits of the extractor, and the report carries no
\* insight line.
C4_ReclassificationFailureFallsBack ==
    reply.kind \in CallFailures \cup ParseFailures =>
        /\ failedStage # "enrich"
        /\ stagesRun[Len(stagesRun)] = "enrich" => (ppc = "open_db" /\ returned = "none")
        /\ enrichment = [visits |-> visits, insights |-> <<>>]
        /\ (Ran("txn_commit") /\ failedStage = "none") =>
                (visitsDb[pdate] = visits /\ SumSeconds(visitsDb[pdate]) = SumSeconds(visits))
        /\ (Ran("report_read") /\ failedStage = "none") =>
                /\ report = RuleBasedReport
                /\ \A i \in 1..Len(report.anomalies) : report.anomalies[i].text # "AI insight: "
        /\ returned = "ok" =>
                /\ reportFiles[pdate].json = RuleBasedReport
                /\ reportFiles[pdate].md = render_markdown(RuleBasedReport)

\* C4 witness: a run whose remote call panicked has returned Ok with the
\* extractor's visits stored
C4_Witness ==
    /\ reply.kind = "worker_panic"
    /\ returned = "ok"
    /\ Len(visits) = 2
    /\ visitsDb[pdate] = visits
    /\ reportFiles[pdate].json = RuleBasedReport

TxnSteps == {"txn_begin", "txn_delete", "txn_insert", "txn_commit"}

\* C6: replace_chrome_visits_for_date is atomic: once it has returned Ok
\* the stored rows of its date are exactly the new visit list, once it has
\* failed (begin, delete, an insert or the commit) the stored rows are
\* exactly those from before the call, the rows of other dates are never
\* touched, and another connection reading during the call sees the old
\* rows or the new list, never a part of either.
C6_ReplaceIsAtomic ==
    /\ (Ran("txn_commit") /\ failedStage = "none") =>
            visitsDb = [txn.before EXCEPT ![pdate] = enrichment.visits]
    /\ failedStage \in TxnSteps => visitsDb = txn.before
    /\ ppc \in TxnSteps \ {"txn_begin"} => StoredRows(visitsDb[pdate], txn) = txn.before[pdate]
    /\ observed.seen => observed.rows \in {txn.before[pdate], enrichment.visits}

\* C6 witness: on a date that already had rows, the second insert failed
\* after the delete and the first insert, another connection had read in
\* between, and the rows stored are the old ones
C6_Witness ==
    /\ failedStage = "txn_insert"
    /\ txn.done = 1
    /\ txn.before[pdate] # <<>>
    /\ txn.work # txn.before[pdate]
    /\ observed.seen
    /\ visitsDb = txn.before

AbortingSteps == {"load_rules", "extract", "open_db"} \cup TxnSteps

LaterSteps == {"report_open", "report_read", "write_md", "write_json", "upsert_meta", "notify"}

\* C7: a failure of rule loading, extraction, opening the store or the
\* visit replacement ends the invocation: Err is returned, the failed step
\* is the last one executed, no aggregation, report file write, metadata
\* upsert or notification of this invocation has happened, and no step was
\* executed twice (an insert once per visit).
C7_EarlyFailureAbortsRun ==
    failedStage \in AbortingSteps =>
        /\ ppc = "done"
        /\ returned = "err"
        /\ stagesRun[Len(stagesRun)] = failedStage
        /\ \A s \in LaterSteps : ~Ran(s)
        /\ \A s \in (AbortingSteps \cup {"enrich"}) \ {"txn_insert"} : TimesRun(s) <= 1
        /\ TimesRun("txn_insert") <= Len(enrichment.visits)
        /\ report = NoReport
        /\ reportMeta[pdate] # utc
        /\ reportFiles[pdate].json.date # -1 => reportFiles[pdate].json.generated_at # utc

\* C7 witness: in a second run for a date whose report exists, the commit
\* of the replacement failed and the run returned Err
C7_Witness ==
    /\ failedStage = "txn_commit"
    /\ ppc = "done"
    /\ returned = "err"
    /\ reportMeta[pdate] >= 0
    /\ Len(enrichment.visits) = 2

(***************************************************************************)
(* Properties of the extractor                                             *)
(***************************************************************************)
HasReturned(run) == calls[run].pc = "returned"

\* no other call has been entered
RanAlone(run) == \A other \in ExtractRuns \ {run} : calls[other].pc = "idle"

\* C11: when collect_profile_visits has returned, by the copy's failure as much as by
\* the query's success or failure, no temporary directory the call created is left
C11_TempDirRemovedOnEveryExit ==
    \A run \in ExtractRuns : HasReturned(run) => calls[run].left = {}

VisitSet(listed) == {listed[i] : i \in DOMAIN listed}

\* the visits of the profiles that are there, each domain's durations added up and
\* categorised by the rules
VisitsOfGoodProfiles(day) ==
    LET good == SelectSeq(chrome_profiles, LAMBDA profile : history_files[profile] = "good")
        rows == [i \in DOMAIN good |-> HistoryVisits(good[i], day)]
    IN  {[domain |-> entry.domain, category |-> CatOther, duration_sec |-> entry.duration_sec] :
            entry \in FoldEntries(rows)}

\* C12: a call that runs alone takes nothing and no error from a profile whose
\* History file is missing, and fails as a whole, with no visits, as soon as one
\* profile's History file is there but cannot be copied or queried
C12_MissingSkippedUnreadableFails ==
    \A run \in ExtractRuns :
        (HasReturned(run) /\ RanAlone(run)) =>
            /\ ((\A profile \in ProfileNames : history_files[profile] \in {"missing", "good"})
                /\ tmp_writable)
               => /\ calls[run].outcome.ok
                  /\ VisitSet(calls[run].outcome.visits) = VisitsOfGoodProfiles(RunDate(run))
            /\ (\E profile \in ProfileNames : history_files[profile] \in {"nocopy", "noquery"})
               => calls[run].outcome = SyncFailed

\* a lone call has returned an error after it had collected the first profile's visits
C12_Witness ==
    /\ HasReturned("scheduled")
    /\ RanAlone("scheduled")
    /\ history_files = [profile \in ProfileNames |-> IF profile = "Default" THEN "good" ELSE "noquery"]
    /\ calls["scheduled"].collected = <<HistoryVisits("Default", 0)>>
    /\ calls["scheduled"].outcome = SyncFailed

\* what a call for the date returns when no other call runs
AloneOutcome(day) ==
    IF \/ \E profile \in ProfileNames : history_files[profile] \in {"nocopy", "noquery"}
       \/ (~tmp_writable /\ \E profile \in ProfileNames : history_files[profile] # "missing")
    THEN [ok |-> FALSE, visits |-> {}]
    ELSE [ok |-> TRUE, visits |-> VisitsOfGoodProfiles(day)]

\* C16: two runs for different dates that overlap do not interfere through the
\* extractor's temporary directory: each returns what it would return alone
C16_ConcurrentRunsDoNotInterfere ==
    \A run \in ExtractRuns :
        HasReturned(run) =>
            [ok |-> calls[run].outcome.ok, visits |-> VisitSet(calls[run].outcome.visits)]
                = AloneOutcome(RunDate(run))

(***************************************************************************)
(* Properties of the service                                               *)
(***************************************************************************)
\* the stages that block on the history extraction and on the remote call
BlockingStages == {"extract", "enrich"}

\* C13: while a scheduled pipeline run is inside its blocking extraction or its remote
\* call, the collector's due tick and the API's waiting connection can be taken
C13_OthersProgressDuringPipeline ==
    (occupied = "pipeline" /\ PipelineStages[pipe_stage] \in BlockingStages) =>
        /\ (svc_clock >= tick_at => ENABLED CollectorTick)
        /\ (conn_waiting => ENABLED ApiServes)

\* C14: once a branch of the select! has completed the service has ended, and an
\* error of the completed branch is what the service returned
C14_CompletionEndsServiceWithItsResult ==
    finished.branch # "none" =>
        /\ svc_result # "running"
        /\ (finished.result = "err" => svc_result = "err")

\* every invocation that started has run to its end or to its own error
NoInvocationCutShort == invocations.started = invocations.completed + invocations.failed

\* C15: a signal that arrived while the scheduler was suspended in a sleep ends the
\* service with no pipeline invocation after it, and no invocation is cut short
C15_SignalInSleepSkipsPipeline ==
    svc_result # "running" =>
        /\ (signal_ctx.arrived /\ signal_ctx.sleep \in {"poll", "final", "settle"}
            /\ ~signal_ctx.elapsed)
           => invocations.started = signal_ctx.started
        /\ NoInvocationCutShort

(***************************************************************************)
(* Properties of the analyzer's pure functions                             *)
(***************************************************************************)
\* C17: categorize_domain returns the same category on every call for the same rules
\* file and domain, also when several rules match
C17_CategorizeDomainDeterministic ==
    [][(/\ fn_name = "categorize_domain"
        /\ fn_value # <<>>
        /\ fn_value' # <<>>
        /\ fn_value[1].category # <<>>
        /\ fn_value'[1].category # <<>>)
       => fn_value'[1].category = fn_value[1].category]_vars

\* the rule as domain_matches compares it
NormalizedRule(rule) == to_lowercase(trim_start_matches(trim(rule), Www))

\* the rule is the whole domain, or the part of the domain after one of its dots
MatchesAtLabel(domain, rule) ==
    \E cut \in 0..Len(domain) :
        /\ SubSeq(domain, cut + 1, Len(domain)) = rule
        /\ (cut = 0 \/ domain[cut] = ".")

Categorized ==
    /\ fn_name = "categorize_domain"
    /\ fn_value # <<>>
    /\ ~fn_value[1].fresh
    /\ fn_value[1].category # <<>>

\* C18: a rule matches a domain exactly when the normalized domain is the normalized
\* rule or ends with a dot and the rule, the category returned is that of a matching
\* rule, and it is other when no rule matches
C18_RuleMatchesWholeLabels ==
    Categorized =>
        LET order == fn_value[1].rules
            normalized_domain == to_lowercase(trim(fn_args[2]))
            matching == {i \in DOMAIN order :
                            MatchesAtLabel(normalized_domain, NormalizedRule(order[i].key))}
        IN  /\ \A i \in DOMAIN order :
                    domain_matches(normalized_domain, order[i].key) <=> i \in matching
            /\ fn_value[1].category
                    \in IF matching = {} THEN {CatOther} ELSE {order[i].value : i \in matching}

\* rule hub.com has been tried on github.com, and the category is other
C18_Witness ==
    /\ Categorized
    /\ fn_args[2] = <<"g", "i", "t", "h", "u", "b", ".", "c", "o", "m">>
    /\ fn_value[1].rules = <<[key |-> <<"h", "u", "b", ".", "c", "o", "m">>, value |-> CatShopping]>>
    /\ fn_value[1].category = CatOther

SevenCategories ==
    {CatDevelopment, CatResearch, CatCommunication, CatEntertainment, CatSns, CatShopping,
     CatOther}

\* the labels normalize_category knows, aliases included
KnownLabels ==
    SevenCategories \cup {<<"d", "e", "v">>, KoDevelopment, KoCommunication, KoResearch,
                          KoEntertainment, KoShopping, KoOther}

\* C19: normalize_category returns one of the seven canonical categories for every
\* input, other for an input it does not know, and maps its result to itself
C19_NormalizeCategoryTotalIdempotent ==
    (fn_name = "normalize_category" /\ fn_value # <<>>) =>
        /\ fn_value[1] \in SevenCategories
        /\ normalize_category(fn_value[1]) = fn_value[1]
        /\ (to_lowercase(trim(fn_args[1])) \notin KnownLabels => fn_value[1] = CatOther)

\* an unknown label has been normalized to other
C19_Witness ==
    /\ fn_name = "normalize_category"
    /\ fn_args = <<<<" ", "G", "a", "m", "e", "s", " ">>>>
    /\ fn_value = <<CatOther>>

HasCategory(rows, category) == \E i \in DOMAIN rows : rows[i].category = category

\* the map has the seven canonical keys, and 0 where the rows have no such category
SevenKeys(map, rows) ==
    /\ DOMAIN map = SevenCategories
    /\ \A category \in SevenCategories : ~HasCategory(rows, category) => map[category] = 0

\* C20: each of the four category maps of a report has exactly the seven canonical
\* keys, with 0 for a category without rows, whatever the rows are
C20_ReportHasSevenKeysPerMap ==
    (fn_name = "build_daily_report" /\ fn_value # <<>>) =>
        /\ SevenKeys(fn_value[1].categories_seconds, fn_args[1])
        /\ SevenKeys(fn_value[1].categories, fn_args[1])
        /\ SevenKeys(fn_value[1].chrome_categories_seconds, fn_args[2])
        /\ SevenKeys(fn_value[1].chrome_categories, fn_args[2])

\* a report has been built from activities with a label that is not canonical and no
\* visits at all
C20_Witness ==
    /\ fn_name = "build_daily_report"
    /\ fn_value # <<>>
    /\ HasCategory(fn_args[1], <<"g", "a", "m", "e", "s">>)
    /\ fn_args[2] = <<>>

(***************************************************************************)
(* Properties of the report lists (AnalyzerSpec)                           *)
(***************************************************************************)
TopN == fn_name = "top_n_metrics" /\ fn_value # <<>>

\* C21: the list top_n_metrics returns has at most n entries (5 for apps, 10
\* for domains), one entry for each of the n best names, each with the total
\* of its name where a negative total counts as zero, in the order of
\* descending seconds and, among equal seconds, of ascending names; every
\* name left out has a total that is at most the total of the last entry kept
C21_TopListsBoundedSortedComplete ==
    /\ TOP_APPS = 5
    /\ TOP_DOMAINS = 10
    /\ TopN =>
        LET totals == fn_args[1]
            limit == fn_args[2]
            kept == fn_value[1]
            Counted(name) == IF totals[name] < 0 THEN 0 ELSE totals[name]
            names == {kept[i].name : i \in 1..Len(kept)}
        IN  /\ Len(kept) <= limit
            /\ Len(kept) = Min(limit, Cardinality(DOMAIN totals))
            /\ \A i \in 1..Len(kept) :
                /\ kept[i].name \in DOMAIN totals
                /\ kept[i].seconds = Counted(kept[i].name)
            /\ \A i, j \in 1..Len(kept) :
                i < j =>
                    /\ kept[i].name # kept[j].name
                    /\ \/ kept[i].seconds > kept[j].seconds
                       \/ /\ kept[i].seconds = kept[j].seconds
                          /\ StrLess(kept[i].name, kept[j].name)
            /\ \A name \in DOMAIN totals \ names :
                Counted(name) <= kept[Len(kept)].seconds

\* two domains at 120 seconds each come out as a.com, b.com
C21_Witness ==
    /\ TopN
    /\ DOMAIN fn_args[1] = {<<"a", ".", "c", "o", "m">>, <<"b", ".", "c", "o", "m">>}
    /\ \A name \in DOMAIN fn_args[1] : fn_args[1][name] = 120
    /\ fn_value[1][1].name = <<"a", ".", "c", "o", "m">>
    /\ fn_value[1][2].name = <<"b", ".", "c", "o", "m">>

Anomalies == fn_name = "detect_anomalies" /\ fn_value # <<>>

\* the fixed texts of the four flags, in the order of the list
FlagTexts ==
    <<"Entertainment usage is high: ",
      "YouTube session was unusually long: ",
      "Total tracked time is below 1 hour",
      "Chrome history durations can overlap across tabs, so web time may exceed active window time">>

\* C22: detect_anomalies emits each of its four flags independently of the
\* others and in the order entertainment, youtube, low activity, overlap: the
\* entertainment flag exactly when the entertainment total is at least 5400
\* seconds, the youtube flag exactly when a top domain whose name contains
\* youtube.com has at least 3600 seconds, the low activity flag exactly when
\* the activity total is below 3600 seconds, and the overlap note exactly when
\* the browsing total is positive and above the activity total
C22_AnomalyFlagsIndependentInOrder ==
    Anomalies =>
        LET entertainment == fn_args[1][CatEntertainment]
            top == fn_args[2]
            active == fn_args[3]
            browsing == fn_args[4]
            Raised(i) ==
                CASE i = 1 -> entertainment >= 5400
                  [] i = 2 -> \E k \in 1..Len(top) :
                                 /\ contains(top[k].name, <<"y", "o", "u", "t", "u", "b", "e", ".", "c", "o", "m">>)
                                 /\ top[k].seconds >= 3600
                  [] i = 3 -> active < 3600
                  [] i = 4 -> browsing > 0 /\ browsing > active
            raised == {i \in 1..4 : Raised(i)}
            flags == fn_value[1]
        IN  /\ Len(flags) = Cardinality(raised)
            /\ \A i \in raised :
                flags[1 + Cardinality({j \in raised : j < i})].text = FlagTexts[i]

\* 5400 seconds of entertainment on a day of 3600 active seconds without
\* browsing raise the entertainment flag alone
C22_Witness ==
    /\ Anomalies
    /\ fn_args[1][CatEntertainment] = 5400
    /\ fn_args[2] = <<>>
    /\ fn_args[3] = 3600
    /\ fn_args[4] = 0
    /\ Len(fn_value[1]) = 1
    /\ fn_value[1][1].text = FlagTexts[1]

(***************************************************************************)
(* Properties of the functions called one at a time (FunctionSpec)         *)
(***************************************************************************)
EnrichReturned == fn_name = "enrich_chrome_visits" /\ fn_value # <<>>

EnrichSucceeded == EnrichReturned /\ fn_value[1].outcome.ok

\* the reply has an item for the domain, compared without blanks and capitals
InReply(answer, domain) ==
    \E i \in 1..Len(answer.domain_categories) :
        to_lowercase(trim(answer.domain_categories[i].domain)) = to_lowercase(trim(domain))

\* C23: a successful enrich_chrome_visits returns the visits it was given,
\* in the same number and order, each with its domain and its duration; only
\* the category may differ, a visit whose domain is not in the reply keeps its
\* category, and a category taken from the reply is one of the seven
C23_ReclassificationKeepsVisits ==
    EnrichSucceeded =>
        LET before == fn_args[4]
            after == fn_value[1].outcome.value.visits
        IN  /\ Len(after) = Len(before)
            /\ \A i \in 1..Len(before) :
                /\ after[i].domain = before[i].domain
                /\ after[i].duration_sec = before[i].duration_sec
                /\ DOMAIN after[i] = {"domain", "category", "duration_sec"}
                /\ ~InReply(fn_args[5], before[i].domain) => after[i].category = before[i].category
                /\ after[i].category # before[i].category =>
                    /\ fn_value[1].remote_calls = 1
                    /\ InReply(fn_args[5], before[i].domain)
                    /\ after[i].category \in
                          {CatDevelopment, CatResearch, CatCommunication, CatEntertainment,
                           CatSns, CatShopping, CatOther}

\* of three visits the reply renames one (x.io, from sns to other, by the
\* unknown label games) and leaves the two it does not name
C23_Witness ==
    /\ EnrichSucceeded
    /\ Len(fn_args[4]) = 3
    /\ fn_args[4][2].category = CatSns
    /\ fn_value[1].outcome.value.visits[2].category = CatOther
    /\ fn_value[1].outcome.value.visits[1] = fn_args[4][1]
    /\ fn_value[1].outcome.value.visits[3] = fn_args[4][3]
    /\ ~InReply(fn_args[5], fn_args[4][1].domain)

\* an optional string that is absent or consists of white space
NoCredentialIn(optional) ==
    optional = <<>> \/ \A i \in 1..Len(optional[1]) : IsWhitespace(optional[1][i])

\* C24: with ai_enabled off, or no visits, or no credential that is not blank
\* in the environment variable or the configuration, enrich_chrome_visits
\* calls no provider and returns Ok with the visits it was given and no insights
C24_NoRemoteCallWithoutFlagVisitsKey ==
    (/\ EnrichReturned
     /\ \/ ~fn_args[1]
        \/ fn_args[4] = <<>>
        \/ NoCredentialIn(fn_args[2]) /\ NoCredentialIn(fn_args[3]))
    => /\ fn_value[1].remote_calls = 0
       /\ fn_value[1].outcome = [ok |-> TRUE,
                                 value |-> [visits |-> fn_args[4], insights |-> <<>>]]

\* the flag is on and there are visits, but the environment variable is blank
\* and the configuration has an empty key
C24_Witness ==
    /\ EnrichReturned
    /\ fn_args[1]
    /\ fn_args[4] # <<>>
    /\ fn_args[2] = <<<<" ">>>>
    /\ fn_args[3] = <<<<>>>>
    /\ fn_args[5].kind = "ok"
    /\ fn_value[1].remote_calls = 0
    /\ fn_value[1].outcome.ok

Extracted == fn_name = "sync_chrome_visits_for_date" /\ fn_value # <<>>

\* the whole seconds of the rows of a domain that last a second or more
RECURSIVE WholeSeconds(_, _)
WholeSeconds(domain, rows) ==
    IF rows = <<>> THEN 0
    ELSE (IF /\ extract_domain(Head(rows).host) = <<domain>>
             /\ Head(rows).visit_duration >= 1000000
          THEN Head(rows).visit_duration \div 1000000
          ELSE 0)
         + WholeSeconds(domain, Tail(rows))

\* C25: the extractor counts each record in whole seconds, the fraction cut
\* off, drops the records that then last zero seconds or less, and adds up the
\* rest per domain over all profiles: there is exactly one entry per domain
\* that has such a record, and its total is positive
C25_ExtractedTotalsPositivePerDomain ==
    Extracted =>
        LET rows == fn_args[1] \o fn_args[2]
            entries == fn_value[1]
            domains == {extract_domain(rows[i].host)[1] :
                          i \in {k \in 1..Len(rows) : rows[k].host # <<>>}}
        IN  /\ \A entry \in entries :
                /\ entry.duration_sec > 0
                /\ entry.domain \in domains
                /\ entry.duration_sec = WholeSeconds(entry.domain, rows)
            /\ \A one, other \in entries : one.domain = other.domain => one = other
            /\ \A domain \in domains :
                WholeSeconds(domain, rows) > 0 => \E entry \in entries : entry.domain = domain

\* 1999999 microseconds of www.a.io in one profile and 1000000 of a.io in the
\* other make one entry of two seconds; b.io, visited for no time, has none
C25_Witness ==
    /\ Extracted
    /\ fn_args[1] = <<RawRow(<<<<"w", "w", "w", ".", "a", ".", "i", "o">>>>, 1999999), RawRow(<<<<"b", ".", "i", "o">>>>, 0)>>
    /\ fn_args[2] = <<RawRow(<<<<"a", ".", "i", "o">>>>, 1000000)>>
    /\ fn_value[1] = {Visited(<<"a", ".", "i", "o">>, 2)}

CronParsed == fn_name = "parse_daily_cron_time" /\ fn_value # <<>>

\* C26: parse_daily_cron_time accepts an expression exactly when it has five
\* fields set apart by white space, the last three are each '*', the first
\* two are numbers, the minute is at most 59 and the hour at most 23; it then
\* returns that hour and minute, and it rejects everything else
C26_CronAcceptedIffDailyForm ==
    CronParsed =>
        LET fields == fn_args[1]
            daily ==
                /\ Len(fields) = 5
                /\ \A i \in 3..5 : fields[i].text = <<"*">>
                /\ fields[1].kind = "digits" /\ fields[1].number \in 0..59
                /\ fields[2].kind = "digits" /\ fields[2].number \in 0..23
        IN  /\ fn_value[1].ok <=> daily
            /\ daily => /\ fn_value[1].minute = fields[1].number
                        /\ fn_value[1].hour = fields[2].number

\* "59 23 * * *", written with tabs and white space around it, is accepted as 23:59
C26_Witness ==
    /\ CronParsed
    /\ fn_args[2] = "tabs"
    /\ JoinFields(fn_args[1], <<" ">>) = <<"5", "9", " ", "2", "3", " ", "*", " ", "*", " ", "*">>
    /\ fn_value[1] = [ok |-> TRUE, hour |-> 23, minute |-> 59]

CronMade == fn_name = "cron_from_report_time" /\ fn_value # <<>>

\* C27: for a time of day written HH:MM with two digits each, the hour at most
\* 23 and the minute at most 59, cron_from_report_time returns
\* "<minute> <hour> * * *" with both numbers written without leading zeros;
\* whenever it returns an expression, parse_daily_cron_time reads the same
\* hour and minute back from it; a string that is no time of day gives an error
C27_ReportTimeRoundTrip ==
    CronMade =>
        LET hour == fn_args[1]
            minute == fn_args[3]
            returned_cron == fn_value[1]
            two_digits == /\ hour.kind = "two_digits" /\ hour.number <= 23
                          /\ minute.kind = "two_digits" /\ minute.number <= 59
                          /\ fn_args[2] = <<":">>
            no_time == \/ hour.kind = "malformed" \/ hour.number > 23
                       \/ minute.kind = "malformed" \/ minute.number > 59
                       \/ fn_args[2] # <<":">>
        IN  /\ two_digits =>
                /\ returned_cron.ok
                /\ returned_cron.cron = minute.plain \o <<" ">> \o hour.plain \o <<" ", "*", " ", "*", " ", "*">>
            /\ no_time => ~returned_cron.ok
            /\ returned_cron.ok =>
                parse_daily_cron_time(returned_cron.cron) =
                    [ok |-> TRUE, hour |-> hour.number, minute |-> minute.number]

\* "09:05" becomes "5 9 * * *"
C27_Witness ==
    /\ CronMade
    /\ fn_args[1].text \o fn_args[2] \o fn_args[3].text = <<"0", "9", ":", "0", "5">>
    /\ fn_value[1] = [ok |-> TRUE, cron |-> <<"5", " ", "9", " ", "*", " ", "*", " ", "*">>]

(***************************************************************************)
(* Properties of the stored report (PipeSpec)                              *)
(***************************************************************************)
\* what a report says of the visit rows it was built from
VisitFields == {"chrome_history_seconds", "chrome_categories_seconds", "chrome_categories",
                "top_domains"}

\* the report that the rows now stored for a date give
FromStoredRows(day) ==
    build_daily_report(day, activities_for_date(day), chrome_visits_for_date(visitsDb[day]), 0)

\* C28: between pipeline runs, whatever their number and wherever they
\* failed, the report stored for a date says of the visits what the visit
\* rows stored for that date give: no run leaves new rows beside a report
\* built from the rows they replaced
C28_StoredReportBuiltFromStoredVisits ==
    ppc \in {"idle", "done"} =>
        \A day \in PipeDates :
            /\ reportFiles[day].json # NoReport =>
                \A field \in VisitFields : reportFiles[day].json[field] = FromStoredRows(day)[field]
            /\ reportFiles[day].md # NoReport =>
                /\ reportFiles[day].md.top_domains = FromStoredRows(day).top_domains
                /\ reportFiles[day].md.chrome_history_seconds =
                       FromStoredRows(day).chrome_history_seconds

(***************************************************************************)
(* Properties of the invocation (SchedSpec)                                *)
(***************************************************************************)
\* the task has been invoked and has not returned: the clock still shows
\* the instant of the invocation
Invoked == pc = "task"

\* C29: when run_cron_scheduler invokes the task, the schedule value it
\* fetched last is a valid daily expression, the local time of day is at or
\* after the time of day of that expression, and the date handed to the task
\* is the local date of that instant, read after the final sleep
C29_InvokedAtOrAfterTriggerWithDateOfInvocation ==
    Invoked =>
        /\ parse_daily_cron_time(cron_expr).ok
        /\ TimeOfDay(DayLen, now) >=
              (parse_daily_cron_time(cron_expr).hour * 60
                 + parse_daily_cron_time(cron_expr).minute) * 60
        /\ date = now \div DayLen

\* a report at midnight: the final sleep began on day 0 and the task is
\* invoked for day 1
C29_Witness ==
    /\ Invoked
    /\ cron_expr = <<"0", " ", "0", " ", "*", " ", "*", " ", "*">>
    /\ now - delay - MaxJitter < DayLen
    /\ delay > 0
    /\ now >= DayLen
    /\ date = 1

(***************************************************************************)
(* Properties of the totals of a report (PipeSpec)                         *)
(***************************************************************************)
SevenLabels ==
    {<<"d", "e", "v", "e", "l", "o", "p", "m", "e", "n", "t">>, <<"r", "e", "s", "e", "a", "r", "c", "h">>, <<"c", "o", "m", "m", "u", "n", "i", "c", "a", "t", "i", "o", "n">>, <<"e", "n", "t", "e", "r", "t", "a", "i", "n", "m", "e", "n", "t">>, <<"s", "n", "s">>,
     <<"s", "h", "o", "p", "p", "i", "n", "g">>, <<"o", "t", "h", "e", "r">>}

\* the seven totals of a map of a report, added up
SevenTotals(map) ==
    map[<<"d", "e", "v", "e", "l", "o", "p", "m", "e", "n", "t">>] + map[<<"r", "e", "s", "e", "a", "r", "c", "h">>] + map[<<"c", "o", "m", "m", "u", "n", "i", "c", "a", "t", "i", "o", "n">>]
      + map[<<"e", "n", "t", "e", "r", "t", "a", "i", "n", "m", "e", "n", "t">>] + map[<<"s", "n", "s">>] + map[<<"s", "h", "o", "p", "p", "i", "n", "g">>] + map[<<"o", "t", "h", "e", "r">>]

TotalsAddUp(made) ==
    /\ SevenTotals(made.categories_seconds) = made.active_window_seconds
    /\ SevenTotals(made.chrome_categories_seconds) = made.chrome_history_seconds

\* C30: in every report the pipeline builds or has stored, the seven totals
\* of the activity categories add up to active_window_seconds and the seven
\* totals of the browsing categories to chrome_history_seconds; every
\* category stored with a visit row, and every category of the activity
\* rows a report is about to be built from, is one of the seven
C30_CategoryTotalsAddUp ==
    /\ report # NoReport => TotalsAddUp(report)
    /\ \A day \in PipeDates :
        /\ reportFiles[day].json # NoReport => TotalsAddUp(reportFiles[day].json)
        /\ \A i \in 1..Len(visitsDb[day]) : visitsDb[day][i].category \in SevenLabels
    /\ ppc = "report_read" =>
        LET activities == activities_for_date(pdate)
        IN  \A i \in 1..Len(activities) : activities[i].category \in SevenLabels

\* a stored report of 3500 active seconds and 5520 seconds of browsing in
\* two categories, after the provider renamed docs.io
C30_Witness ==
    /\ reportFiles[0].json # NoReport
    /\ reportFiles[0].json.active_window_seconds = 3500
    /\ reportFiles[0].json.chrome_history_seconds = 5520
    /\ reportFiles[0].json.chrome_categories_seconds[<<"r", "e", "s", "e", "a", "r", "c", "h">>] = 120
    /\ reportFiles[0].json.chrome_categories_seconds[<<"e", "n", "t", "e", "r", "t", "a", "i", "n", "m", "e", "n", "t">>] = 5400
    /\ reportFiles[0].json.categories_seconds[<<"d", "e", "v", "e", "l", "o", "p", "m", "e", "n", "t">>] = 3000

=============================================================================
